---- MODULE Spec2Model ----
(***************************************************************************)
(* Verification model of the HisBet historical scraper (kwpks428/allmpks5).*)
(*                                                                         *)
(* The model follows the per-epoch pipeline HisBetScraper.processEpoch,    *)
(* the Redis lock (RedisLock), the store (Database / TransactionManager),  *)
(* the harvester (EventScraper.fetchEventsInRange) and the validator       *)
(* (DataValidator).  The two drivers of the process (sweeper, tip) run the *)
(* pipeline concurrently.                                                  *)
(*                                                                         *)
(* Spec and LiveSpec are the pipeline.  Three parts of the program are     *)
(* also driven on their own: the transaction executor (TxSpec), the        *)
(* failure accounting of processEpoch (BreakerSpec) and the schedules of   *)
(* the two drivers (SchedSpec).                                            *)
(*                                                                         *)
(* Time is discrete: one Tick is TickSec seconds.  Amounts are integers in *)
(* units of 10^-5 BNB, odds are integers in units of 10^-4.                *)
(***************************************************************************)
EXTENDS Integers, Sequences, FiniteSets, TLC

\* ------------------------------------------------------------------ bounds
MaxEpoch == 1
TickSec == 600
MaxCheckedOut == 3
MaxChainEpoch == 13
ChainLatest == 40000
MaxBlockSec == 3
MaxHops == 12
HopBlocks == 75
MaxStakes == 2
MaxClaimEvents == 2
MaxClaims == 5
MaxCacheBlocks == 2
MaxCacheTicks == 4
MaxWindows == 3
MaxRangeEpochs == 2

\* ------------------------------------------------------- program constants
lockTimeout == 120
maxConsecutiveFailures == 3
failureWindowDuration == 10 * 60 * 1000
poolMax == 20
maxPerCycle == 10

Epochs == 1..MaxEpoch
None == "none"

\* one BNB in units of 10^-5
BNB == 10^5

\* lock TTL and failure window measured in ticks
LockTtlTicks == (lockTimeout + TickSec - 1) \div TickSec
WindowTicks == (failureWindowDuration \div 1000) \div TickSec

\* The texts of the errors the pipeline throws: a service (store, lock
\* service, RPC node) that cannot be reached or fails, the validator's
\* rejection, a statement the store rejects
Unavailable == "unavailable"
ValidationFailed == "validation failed"
StatementRejected == "statement rejected"

\* the outcomes of an invocation that failed inside handleEpochProcessing
ProcessingAborts == {"abortLocate", "abortValidate", "abortCommit"}

\* the drivers of the process, each running one pipeline invocation at a time
Inv == {"sweeper", "tip"}

\* --------------------------------------------------------------- the chain
\* Every epoch e spans blocks 2e and 2e+1.  The contract emitted, for every
\* epoch, StartRound, LockRound and EndRound, one BetBull, one BetBear and
\* (from epoch 2 on) one Claim that withdraws the winnings of epoch e-1.
Ev(type, e, blk, who, amt, price) ==
    [eventType |-> type, epoch |-> e, blockNumber |-> blk,
     transactionHash |-> blk, sender |-> who, amount |-> amt, price |-> price]

ChainLogs(type) ==
    CASE type = "StartRound" -> [i \in Epochs |-> Ev(type, i, 2 * i, "", 0, 0)]
      [] type = "LockRound"  -> [i \in Epochs |-> Ev(type, i, 2 * i, "", 0, 500)]
      [] type = "EndRound"   -> [i \in Epochs |-> Ev(type, i, 2 * i + 1, "", 0, 510)]
      [] type = "BetBull"    -> [i \in Epochs |-> Ev(type, i, 2 * i, "0xA", 3 * BNB, 0)]
      [] type = "BetBear"    -> [i \in Epochs |-> Ev(type, i, 2 * i + 1, "0xB", BNB, 0)]
      [] type = "Claim"      -> [i \in 1..(MaxEpoch - 1) |->
                                    Ev(type, i, 2 * (i + 1) + 1, "0xA", 2 * BNB, 0)]

\* contract.queryFilter(filter, from, to)
QueryFilter(type, from, to) ==
    SelectSeq(ChainLogs(type), LAMBDA l : from <= l.blockNumber /\ l.blockNumber <= to)

\* EventScraper.getBlockRangeForEpoch, result of a successful call
BlockRangeOf(e) == [from |-> 2 * e, to |-> 2 * e + 1]

\* ---------------------------------------------------------------- harvest
\* EventScraper.fetchEventsByFilter: a failed log query is caught and the
\* stream is returned empty.
FetchEventsByFilter(type, from, to, failed) ==
    IF type \in failed THEN << >> ELSE QueryFilter(type, from, to)

\* EventScraper.fetchEventsInBatch: only the BetBull, BetBear and Claim
\* streams are queried; the three round streams are returned empty.
FetchEventsInBatch(from, to, failed) ==
    [startRoundEvents |-> << >>,
     lockRoundEvents  |-> << >>,
     endRoundEvents   |-> << >>,
     betBullEvents    |-> FetchEventsByFilter("BetBull", from, to, failed),
     betBearEvents    |-> FetchEventsByFilter("BetBear", from, to, failed),
     claimEvents      |-> FetchEventsByFilter("Claim", from, to, failed)]

\* EventScraper.fetchEventsInRange (ranges of the model fit one batch)
FetchEventsInRange(from, to, failed) == FetchEventsInBatch(from, to, failed)

\* -------------------------------------------------------------- validator
RECURSIVE SumAmounts(_)
SumAmounts(s) == IF Len(s) = 0 THEN 0 ELSE Head(s).amount + SumAmounts(Tail(s))

RECURSIVE FlatMap(_, _)
FlatMap(F(_), s) == IF Len(s) = 0 THEN << >> ELSE F(Head(s)) \o FlatMap(F, Tail(s))

\* Math.round(x * 10000) / 10000 of an amount, result in units of 10^-4
Round4(a) == (a + 5) \div 10

\* DataValidator.roundOdds(poolAfterFee / side), in units of 10^-4
OddsOf(total, side) ==
    IF side > 0
    THEN LET r97 == (total % side) * 97
         IN  (total \div side) * 9700 + (r97 \div side) * 100
                + (200 * (r97 % side) + side) \div (2 * side)
    ELSE 0

\* DataValidator.roundAmount: Math.round(parsed * 10^8) / 10^8, 0 for a
\* negative amount; amounts of the model are multiples of 10^-5
roundAmount(a) == IF a < 0 THEN 0 ELSE a

\* String.prototype.toLowerCase on the addresses of the model
toLowerCase(s) ==
    CASE s = "0xA" -> "0xa"
      [] s = "0xB" -> "0xb"
      [] OTHER -> s

\* Faulty variant of calculateBetResult: the round's outcome is not read
calculateBetResultOfSide(betDirection, gameResult) ==
    IF betDirection = "UP" THEN "WIN" ELSE "LOSS"

\* DataValidator.calculateBetResult
calculateBetResult(betDirection, gameResult) ==
    IF betDirection = gameResult THEN "WIN" ELSE "LOSS"

\* DataValidator.validateEventsIntegrity: the errors it records
validateEventsIntegrity(ev) ==
    IF Len(ev.startRoundEvents) = 0 THEN << "missing StartRound" >>
    ELSE IF ev.startRoundEvents[1].epoch = 0 THEN << "StartRound without epoch" >>
    ELSE LET betErr(b) ==
                 (IF b.epoch = 0 \/ b.sender = "" THEN << "bet missing info" >> ELSE << >>)
                 \o (IF b.amount <= 0 THEN << "bet amount invalid" >> ELSE << >>)
             claimErr(c) ==
                 (IF c.epoch = 0 \/ c.sender = "" THEN << "claim missing info" >> ELSE << >>)
                 \o (IF c.amount <= 0 THEN << "claim amount invalid" >> ELSE << >>)
         IN  FlatMap(betErr, ev.betBullEvents \o ev.betBearEvents)
             \o FlatMap(claimErr, ev.claimEvents)

\* DataValidator.validateRoundData (called with at least one StartRound)
validateRoundData(ev) ==
    LET epoch == ev.startRoundEvents[1].epoch
        hasLock == Len(ev.lockRoundEvents) > 0 /\ ev.lockRoundEvents[1].price # 0
        hasEnd == Len(ev.endRoundEvents) > 0 /\ ev.endRoundEvents[1].price # 0
        up == SumAmounts(SelectSeq(ev.betBullEvents, LAMBDA b : b.epoch = epoch))
        down == SumAmounts(SelectSeq(ev.betBearEvents, LAMBDA b : b.epoch = epoch))
        result == IF hasLock /\ hasEnd
                  THEN (IF ev.endRoundEvents[1].price > ev.lockRoundEvents[1].price
                        THEN "UP" ELSE "DOWN")
                  ELSE "UP"
    IN  [epoch |-> epoch,
         lockPrice |-> IF Len(ev.lockRoundEvents) > 0 THEN ev.lockRoundEvents[1].price ELSE 0,
         closePrice |-> IF Len(ev.endRoundEvents) > 0 THEN ev.endRoundEvents[1].price ELSE 0,
         result |-> result,
         totalAmount |-> roundAmount(up + down), upAmount |-> roundAmount(up),
         downAmount |-> roundAmount(down),
         upOdds |-> OddsOf(up + down, up), downOdds |-> OddsOf(up + down, down)]

\* DataValidator.validateHisBetData
validateHisBetData(ev, roundResult) ==
    LET all == ev.betBullEvents \o ev.betBearEvents
        isBull(b) == \E i \in 1..Len(ev.betBullEvents) :
                        /\ ev.betBullEvents[i].sender = b.sender
                        /\ ev.betBullEvents[i].epoch = b.epoch
                        /\ ev.betBullEvents[i].blockNumber = b.blockNumber
                        /\ ev.betBullEvents[i].transactionHash = b.transactionHash
        bad(b) == b.sender = "" \/ b.epoch = 0 \/ b.amount <= 0
        err(b) == IF b.sender = "" THEN << "bet without sender" >>
                  ELSE IF b.epoch = 0 THEN << "bet without epoch" >>
                  ELSE IF b.amount <= 0 THEN << "bet amount invalid" >> ELSE << >>
        row(b) == IF bad(b) THEN << >>
                  ELSE << [epoch |-> b.epoch, walletAddress |-> toLowerCase(b.sender),
                           betDirection |-> IF isBull(b) THEN "UP" ELSE "DOWN",
                           betAmount |-> roundAmount(b.amount),
                           result |-> calculateBetResult(IF isBull(b) THEN "UP" ELSE "DOWN",
                                                         roundResult),
                           blockNumber |-> b.blockNumber] >>
    IN  IF Len(all) = 0 THEN [errors |-> << "no bet events" >>, data |-> << >>]
        ELSE [errors |-> FlatMap(err, all), data |-> FlatMap(row, all)]

\* DataValidator.validateClaimData
validateClaimData(ev, currentEpoch) ==
    LET bad(c) == c.sender = "" \/ c.epoch = 0 \/ c.amount <= 0
        err(c) == IF c.sender = "" THEN << "claim without sender" >>
                  ELSE IF c.epoch = 0 THEN << "claim without epoch" >>
                  ELSE IF c.amount <= 0 THEN << "claim amount invalid" >> ELSE << >>
        row(c) == IF bad(c) THEN << >>
                  ELSE << [epoch |-> currentEpoch, walletAddress |-> toLowerCase(c.sender),
                           betEpoch |-> c.epoch, claimAmount |-> roundAmount(c.amount)] >>
    IN  [errors |-> FlatMap(err, ev.claimEvents), data |-> FlatMap(row, ev.claimEvents)]

\* Faulty variant of validateDataConsistency: the totals are not compared
validateDataConsistencyNoTotals(roundData, hisBetData) ==
    (IF Len(hisBetData) = 0 THEN << "no bets" >> ELSE << >>)
    \o (IF roundData.upOdds <= 0 /\ roundData.upAmount > 0
        THEN << "up odds zero" >> ELSE << >>)
    \o (IF roundData.downOdds <= 0 /\ roundData.downAmount > 0
        THEN << "down odds zero" >> ELSE << >>)

\* DataValidator.validateDataConsistency: the errors it records
validateDataConsistency(roundData, hisBetData) ==
    LET betTotal == SumAmounts([i \in 1..Len(hisBetData) |-> [amount |-> hisBetData[i].betAmount]])
    IN  (IF Round4(betTotal) # Round4(roundData.totalAmount)
         THEN << "total bet amount mismatch" >> ELSE << >>)
        \o (IF Len(hisBetData) = 0 THEN << "no bets" >> ELSE << >>)
        \o (IF roundData.upOdds <= 0 /\ roundData.upAmount > 0
            THEN << "up odds zero" >> ELSE << >>)
        \o (IF roundData.downOdds <= 0 /\ roundData.downAmount > 0
            THEN << "down odds zero" >> ELSE << >>)

\* Faulty variant of validateEpochData: only the integrity of the events
\* decides
validateEpochDataIntegrityOnly(ev) ==
    LET integrity == validateEventsIntegrity(ev)
    IN  IF Len(integrity) > 0
        THEN [isValid |-> FALSE, errors |-> integrity, warnings |-> << >>, roundData |-> None,
              hisBetData |-> << >>, claimData |-> << >>]
        ELSE LET currentEpoch == ev.startRoundEvents[1].epoch
                 rd == validateRoundData(ev)
                 hb == validateHisBetData(ev, rd.result)
                 cl == validateClaimData(ev, currentEpoch)
             IN  [isValid |-> TRUE, errors |-> << >>, warnings |-> << >>,
                  roundData |-> rd, hisBetData |-> hb.data, claimData |-> cl.data]

\* DataValidator.validateEpochData(eventsData) as the pipeline calls it,
\* without a currentEpoch argument
validateEpochData(ev) ==
    LET integrity == validateEventsIntegrity(ev)
    IN  IF Len(integrity) > 0
        THEN [isValid |-> FALSE, errors |-> integrity, warnings |-> << >>, roundData |-> None,
              hisBetData |-> << >>, claimData |-> << >>]
        ELSE LET currentEpoch == ev.startRoundEvents[1].epoch
                 rd == validateRoundData(ev)
                 hb == validateHisBetData(ev, rd.result)
                 cl == validateClaimData(ev, currentEpoch)
                 errs == hb.errors \o cl.errors \o validateDataConsistency(rd, hb.data)
             IN  [isValid |-> Len(errs) = 0, errors |-> errs, warnings |-> << >>,
                  roundData |-> rd, hisBetData |-> hb.data, claimData |-> cl.data]

\* HisBetScraper.generateMultiClaimData

\* The total of a wallet is accumulated in double precision, totalAmount +=
\* parseFloat(claimAmount).  Of the sums of up to six of the amounts 0.1, 0.3
\* and 0.6 that add up to 1, these come out as 0.9999999999999999; the
\* amounts are in units of 10^-5, in the order they are added.
LostInAddition ==
    { << 30000, 60000, 10000 >>, << 60000, 30000, 10000 >>,
      << 30000, 30000, 30000, 10000 >>,
      << 10000, 60000, 10000, 10000, 10000 >>, << 60000, 10000, 10000, 10000, 10000 >>,
      << 10000, 10000, 30000, 10000, 30000, 10000 >>,
      << 10000, 30000, 10000, 10000, 30000, 10000 >>,
      << 10000, 30000, 30000, 10000, 10000, 10000 >>,
      << 30000, 10000, 10000, 10000, 30000, 10000 >>,
      << 30000, 10000, 30000, 10000, 10000, 10000 >>,
      << 30000, 30000, 10000, 10000, 10000, 10000 >> }

\* claim.totalAmount >= 1 on the accumulated double
TotalAtLeastOne(amounts) ==
    /\ SumAmounts([i \in 1..Len(amounts) |-> [amount |-> amounts[i]]]) >= BNB
    /\ amounts \notin LostInAddition

\* the filter of generateMultiClaimData
keepsMultiClaim(claimCount, amounts) == claimCount >= 5 \/ TotalAtLeastOne(amounts)

RECURSIVE Wallets(_)
Wallets(claims) ==
    IF Len(claims) = 0 THEN << >>
    ELSE LET w == claims[Len(claims)].walletAddress
             before == Wallets(SubSeq(claims, 1, Len(claims) - 1))
         IN  IF \E i \in 1..Len(before) : before[i] = w THEN before ELSE Append(before, w)

generateMultiClaimData(claimData) ==
    LET of(w) == SelectSeq(claimData, LAMBDA c : c.walletAddress = w)
        agg(w) == [epoch |-> of(w)[1].epoch, walletAddress |-> w,
                   claimCount |-> Len(of(w)),
                   totalAmount |-> SumAmounts([i \in 1..Len(of(w)) |->
                                                 [amount |-> of(w)[i].claimAmount]])]
        keep(w) == IF keepsMultiClaim(Len(of(w)), [i \in 1..Len(of(w)) |-> of(w)[i].claimAmount])
                   THEN << agg(w) >> ELSE << >>
    IN  FlatMap(keep, Wallets(claimData))

\* ------------------------------------------------------------------ store
\* Database.sanitizeTableName
allowedTables == {"round", "hisBet", "claim", "multiClaim", "realBet", "finEpoch", "errEpoch"}

\* Faulty variant: any name is let through
sanitizeAnyTableName(tableName) == TRUE

sanitizeTableName(tableName) == tableName \in allowedTables

NumCols(row) == Cardinality(DOMAIN row)

\* TransactionManager.createTransactionClient: the statement each typed
\* operation sends.  markers is the number of $n parameter markers in the
\* SQL text it builds, params the number of bound values.
TrxInsert(data, tableName) ==
    IF ~sanitizeTableName(tableName) THEN [kind |-> "throw"]
    ELSE [kind |-> "insert", table |-> tableName, rows |-> << data >>,
          markers |-> NumCols(data), params |-> NumCols(data)]

\* batchInsert writes the bare parameter index, without the $ sign
TrxBatchInsert(dataArray, tableName) ==
    IF Len(dataArray) = 0 THEN [kind |-> "noop"]
    ELSE IF ~sanitizeTableName(tableName) THEN [kind |-> "throw"]
    ELSE [kind |-> "insert", table |-> tableName, rows |-> dataArray,
          markers |-> 0, params |-> Len(dataArray) * NumCols(dataArray[1])]

\* TransactionManager.buildWhereClause writes the bare parameter index too
TrxDelete(tableName, e) ==
    IF ~sanitizeTableName(tableName) THEN [kind |-> "throw"]
    ELSE [kind |-> "delete", table |-> tableName, epoch |-> e,
          markers |-> 0, params |-> 1]

\* update: buildSetClause and buildWhereClause write the bare parameter index;
\* one column is set and the row selected by its epoch
TrxUpdate(tableName, e) ==
    IF ~sanitizeTableName(tableName) THEN [kind |-> "throw"]
    ELSE [kind |-> "update", table |-> tableName, epoch |-> e, markers |-> 0, params |-> 2]

\* select: rows of epoch e, or all rows when no condition is given (e = 0)
TrxSelect(tableName, e) ==
    IF ~sanitizeTableName(tableName) THEN [kind |-> "throw"]
    ELSE [kind |-> "select", table |-> tableName, epoch |-> e,
          markers |-> 0, params |-> IF e = 0 THEN 0 ELSE 1]

\* The callback handleEpochProcessing hands to executeTransaction
CommitCallback(e, vr, multiClaimData) ==
    << TrxDelete("realBet", e),
       TrxInsert(vr.roundData, "round"),
       TrxBatchInsert(vr.hisBetData, "hisBet"),
       TrxBatchInsert(vr.claimData, "claim") >>
    \o (IF Len(multiClaimData) > 0
        THEN << TrxBatchInsert(multiClaimData, "multiClaim") >> ELSE << >>)
    \o << TrxInsert([epoch |-> e], "finEpoch") >>

\* The store executing one statement inside a transaction: a statement whose
\* bound values do not match its parameter markers is rejected, and so is an
\* insert that violates a primary key or unique index of the schema.
ClaimKey(c) == << c.epoch, c.walletAddress, c.betEpoch >>

StoreExec(st, q) ==
    IF q.kind = "noop" THEN [ok |-> TRUE, store |-> st]
    ELSE IF q.kind = "throw" \/ q.markers # q.params THEN [ok |-> FALSE, store |-> st]
    ELSE IF q.kind = "delete"
    THEN [ok |-> TRUE, store |-> [st EXCEPT !.realBet = @ \ {q.epoch}]]
    ELSE IF q.kind = "select" \/ q.kind = "update"
    THEN [ok |-> TRUE, store |-> st]
    ELSE CASE q.table = "round" ->
                  IF \E i \in 1..Len(st.round) : st.round[i].epoch = q.rows[1].epoch
                  THEN [ok |-> FALSE, store |-> st]
                  ELSE [ok |-> TRUE, store |-> [st EXCEPT !.round = @ \o q.rows]]
           [] q.table = "finEpoch" ->
                  IF q.rows[1].epoch \in st.finEpoch THEN [ok |-> FALSE, store |-> st]
                  ELSE [ok |-> TRUE,
                        store |-> [st EXCEPT !.finEpoch = @ \cup {q.rows[1].epoch}]]
           [] q.table = "hisBet" ->
                  [ok |-> TRUE, store |-> [st EXCEPT !.hisBet = @ \o q.rows]]
           [] q.table = "claim" ->
                  IF \/ \E i \in 1..Len(q.rows), j \in 1..Len(st.claim) :
                           ClaimKey(q.rows[i]) = ClaimKey(st.claim[j])
                     \/ \E i, j \in 1..Len(q.rows) :
                           i # j /\ ClaimKey(q.rows[i]) = ClaimKey(q.rows[j])
                  THEN [ok |-> FALSE, store |-> st]
                  ELSE [ok |-> TRUE, store |-> [st EXCEPT !.claim = @ \o q.rows]]
           [] q.table = "multiClaim" ->
                  [ok |-> TRUE, store |-> [st EXCEPT !.multiClaim = @ \o q.rows]]
           [] OTHER -> [ok |-> FALSE, store |-> st]

\* The callback running against the transaction's working copy of the tables,
\* from statement k on.  lostAt: the statement at which the connection is
\* lost, 0 when it holds.  On a throw the working copy keeps what the
\* statements before it wrote.
RECURSIVE RunCallback(_, _, _, _)
RunCallback(st, qs, k, lostAt) ==
    IF k > Len(qs) THEN [ok |-> TRUE, store |-> st, step |-> 0, error |-> None]
    ELSE IF k = lostAt THEN [ok |-> FALSE, store |-> st, step |-> k, error |-> Unavailable]
    ELSE LET r == StoreExec(st, qs[k])
         IN  IF r.ok THEN RunCallback(r.store, qs, k + 1, lostAt)
             ELSE [ok |-> FALSE, store |-> st, step |-> k, error |-> StatementRejected]

\* What the network and the store's server do to one transaction: whether
\* pool.connect, BEGIN, COMMIT and ROLLBACK are served, and the statement of
\* the callback at which the connection is lost (0: none)
NetUp == [connect |-> TRUE, begin |-> TRUE, lostAt |-> 0, commit |-> TRUE, rollback |-> TRUE]
NetDown == [connect |-> FALSE, begin |-> FALSE, lostAt |-> 0, commit |-> FALSE, rollback |-> FALSE]

\* Faulty variant of executeTransaction: the catch block rethrows without
\* ROLLBACK and the writes made so far are kept
executeTransactionNoRollback(st, qs, net, out) ==
    IF ~net.connect \/ out >= poolMax
    THEN [ok |-> FALSE, store |-> st, error |-> Unavailable, step |-> 0, leaked |-> 0]
    ELSE IF ~net.begin
    THEN [ok |-> FALSE, store |-> st, error |-> Unavailable, step |-> 0, leaked |-> 1]
    ELSE LET r == RunCallback(st, qs, 1, net.lostAt)
         IN  IF r.ok
             THEN [ok |-> TRUE, store |-> r.store, error |-> None, step |-> 0, leaked |-> 0]
             ELSE [ok |-> FALSE, store |-> r.store, error |-> r.error, step |-> r.step,
                   leaked |-> 0]

\* TransactionManager.executeTransaction with Database.beginTransaction,
\* commitTransaction and rollbackTransaction.  out: the connections checked
\* out of the pool before the call.  The result tells whether the call
\* returned (ok) or threw (error), the tables afterwards, the statement of the
\* callback that threw (step, 0 when the callback returned or never ran) and
\* whether the connection was left checked out (leaked).
\*   beginTransaction: pool.connect (throws when the pool is exhausted or the
\*     server unreachable), then BEGIN, with no release when BEGIN throws;
\*   commitTransaction: COMMIT, then release; a COMMIT that throws skips the
\*     release and lands in the catch block;
\*   rollbackTransaction (catch block): ROLLBACK, then release; a ROLLBACK
\*     that throws skips the release and its error replaces the first one.
\* A transaction that is not committed leaves the tables as they were.
executeTransaction(st, qs, net, out) ==
    IF ~net.connect \/ out >= poolMax
    THEN [ok |-> FALSE, store |-> st, error |-> Unavailable, step |-> 0, leaked |-> 0]
    ELSE IF ~net.begin
    THEN [ok |-> FALSE, store |-> st, error |-> Unavailable, step |-> 0, leaked |-> 1]
    ELSE LET r == RunCallback(st, qs, 1, net.lostAt)
         IN  IF r.ok /\ net.commit
             THEN [ok |-> TRUE, store |-> r.store, error |-> None, step |-> 0, leaked |-> 0]
             ELSE IF net.rollback
             THEN [ok |-> FALSE, store |-> st,
                   error |-> IF r.ok THEN Unavailable ELSE r.error,
                   step |-> r.step, leaked |-> 0]
             ELSE [ok |-> FALSE, store |-> st, error |-> Unavailable,
                   step |-> r.step, leaked |-> 1]

\* Faulty variant of checkFinEpoch: the query never finds the row
checkFinEpochBlind(st, e) == FALSE

\* Database.checkFinEpoch
checkFinEpoch(st, e) == e \in st.finEpoch

\* Faulty variant of logError: the row goes into the completion table
logErrorIntoFinEpoch(st, e, errorMessage) == [st EXCEPT !.finEpoch = @ \cup {e}]

\* Faulty variant of logError: plain INSERT, a second error of the epoch
\* conflicts on the primary key and the first text stays
logErrorInsertOnly(st, e, errorMessage) ==
    IF st.errEpoch[e] = None THEN [st EXCEPT !.errEpoch[e] = errorMessage] ELSE st

\* Database.logError: upsert of the epoch's error row on a fresh connection
logError(st, e, errorMessage) == [st EXCEPT !.errEpoch[e] = errorMessage]

\* ------------------------------------------------------------------ state
VARIABLES
    store,                  \* the seven tables
    lock,                   \* lock[e]: remaining ticks of key lock:pancake:epoch:e, 0 = absent
    pc,                     \* position of every invocation inside processEpoch
    epoch,                  \* the epoch an invocation processes, 0 when idle
    acquired,               \* the invocation's own SET NX succeeded and it has not issued DEL
    ttlLeft,                \* ticks left of the TTL the invocation's own acquire started
    queryFailed,            \* a log query of the invocation's harvest failed and was swallowed
    outcome,                \* how the invocation ended: ok, skipDone, skipLock, or the step it aborted in
    lastError,              \* the text of the error handed to handleProcessingFailure
    logged,                 \* the errEpoch upsert of that error reached the store
    consecutiveFailures,    \* this.consecutiveFailures
    failureWindowAge,       \* ticks since this.failureWindowStart, -1 when null
    phase,                  \* up, closing (isShuttingDown, connections closed), down
    exitCode,               \* the code of process.exit
    checkedOut,             \* connections checked out of the pool and not released
    txLast,                 \* the latest call of the transaction executor and its result
    failureLog,             \* the failures since the last successful processing
    chainEpoch,             \* contract.currentEpoch()
    currentEpoch,           \* this.currentEpoch of HisBetScraper
    processedEpochs,        \* Scheduler.processedEpochs
    cycle,                  \* mainThreadLoop: position, startEpoch, targetEpoch, processedInThisCycle
    sweepLog,               \* what the running or latest sweeper cycle did
    tipLog,                 \* what the latest tip-runner run did
    locCase,                \* the chain, the seed, the target time and the mode of a locator call
    locBlock,               \* the block the call returned, -1 before it returns
    valCase,                \* the six streams handed to the validator
    valResult,              \* what validation and the steps after it made of them
    mcCase,                 \* the Claim records handed to generateMultiClaimData
    mcResult,               \* the rows it returned
    blockTimestampCache,    \* EventScraper.blockTimestampCache: block height -> entry
    nowTick,                \* ticks of TickSec seconds the wall clock has advanced
    tsLookup,               \* the last getBlockTimestampsBatch call: what it asked, fetched, returned
    blockRangeCache,        \* EventScraper.blockRangeCache: epoch -> entry
    rangeLast,              \* the last getBlockRangeForEpoch call and what it returned or threw
    hvCase,                 \* the range handed to fetchEventsInRange, SLICE_SIZE, the failing query
    hvResult,               \* the windows it made and the log queries issued in each
    opLast                  \* the last typed operation run in a transaction, and what came of it

\* the variables of the executor driven on its own
txVars == << txLast >>

\* the variables of the failure accounting driven on its own
brkVars == << failureLog >>

\* the variables of the two drivers' schedules driven on their own
schedVars == << chainEpoch, currentEpoch, processedEpochs, cycle, sweepLog, tipLog >>

\* the block locator driven on its own
locVars == << locCase, locBlock >>

\* the validator and the steps after it driven on their own
valVars == << valCase, valResult >>

\* generateMultiClaimData driven on its own
mcVars == << mcCase, mcResult >>

\* the block-timestamp cache driven on its own
cacheVars == << blockTimestampCache, nowTick, tsLookup, blockRangeCache, rangeLast >>

\* the functions added after the first three
\* the harvester's window and slice arithmetic driven on its own
hvVars == << hvCase, hvResult >>

\* the typed operations of the transaction handle driven on their own
opVars == << opLast >>

extVars == << cacheVars, hvVars, opVars >>

fnVars == << locVars, valVars, mcVars, extVars >>

auxVars == << txVars, brkVars, schedVars, fnVars >>

vars == << store, lock, pc, epoch, acquired, ttlLeft, queryFailed, outcome, lastError, logged,
           consecutiveFailures, failureWindowAge, phase, exitCode, checkedOut, auxVars >>

invVars == << pc, epoch, acquired, ttlLeft, queryFailed, outcome, lastError, logged >>

HarvestedStreams == {"BetBull", "BetBear", "Claim"}

\* the six unfiltered streams of an epoch's block range
AllEventsOf(e) ==
    [startRoundEvents |-> QueryFilter("StartRound", BlockRangeOf(e).from, BlockRangeOf(e).to),
     lockRoundEvents  |-> QueryFilter("LockRound", BlockRangeOf(e).from, BlockRangeOf(e).to),
     endRoundEvents   |-> QueryFilter("EndRound", BlockRangeOf(e).from, BlockRangeOf(e).to),
     betBullEvents    |-> QueryFilter("BetBull", BlockRangeOf(e).from, BlockRangeOf(e).to),
     betBearEvents    |-> QueryFilter("BetBear", BlockRangeOf(e).from, BlockRangeOf(e).to),
     claimEvents      |-> QueryFilter("Claim", BlockRangeOf(e).from, BlockRangeOf(e).to)]

\* the rows of an epoch that an earlier deployment completed
CompletedRows(e) == validateEpochData(AllEventsOf(e))

RECURSIVE ConcatOver(_, _)
ConcatOver(F(_), S) ==
    IF S = {} THEN << >>
    ELSE LET m == CHOOSE x \in S : \A y \in S : x <= y
         IN  F(m) \o ConcatOver(F, S \ {m})

\* A store in which the epochs of done were completed by an earlier
\* deployment
InitStore(done) ==
    LET rnd(e) == << CompletedRows(e).roundData >>
        bets(e) == CompletedRows(e).hisBetData
        claims(e) == CompletedRows(e).claimData
        multi(e) == generateMultiClaimData(CompletedRows(e).claimData)
    IN  [round      |-> ConcatOver(rnd, done),
         hisBet     |-> ConcatOver(bets, done),
         claim      |-> ConcatOver(claims, done),
         multiClaim |-> ConcatOver(multi, done),
         realBet    |-> Epochs \ done,
         finEpoch   |-> done,
         errEpoch   |-> [e \in Epochs |-> None]]

\* no call of the executor yet
NoCall == [seq |-> 0, epoch |-> 0, ok |-> TRUE, step |-> 0, error |-> None,
           logged |-> FALSE]

\* The failure accounting seen from outside: seq flips with every finished
\* invocation and outcome is how it ended; n counts the failures since the
\* process started or last processed an epoch successfully, m those since
\* the counter was last reset (both stop at 3); a1 and a2 are the ticks
\* since the latest and the one before the latest of these failures, -1 when
\* there is none.
NoFailures == [seq |-> 0, outcome |-> None, n |-> 0, m |-> 0, a1 |-> -1, a2 |-> -1]

\* mainThreadLoop between two cycles
Sleeping == [pc |-> "sleeping", startEpoch |-> 0, targetEpoch |-> 0, processedInThisCycle |-> 0]

\* The sweeper cycle seen from outside: the number of pipeline invocations
\* it has made, the epoch of the latest one and how it ended.
NoSweep == [invocations |-> 0, lastInvoked |-> 0, outcome |-> None]

\* The tip-runner run seen from outside: seq flips with every run, targets
\* are the epochs it handed to the pipeline, in order.
NoTipRun == [seq |-> 0, ran |-> FALSE, targets |-> << >>]

\* Everything but the store after construction
InitControl ==
    /\ lock = [e \in Epochs |-> 0]
    /\ pc = [p \in Inv |-> "idle"]
    /\ epoch = [p \in Inv |-> 0]
    /\ acquired = [p \in Inv |-> FALSE]
    /\ ttlLeft = [p \in Inv |-> 0]
    /\ queryFailed = [p \in Inv |-> FALSE]
    /\ outcome = [p \in Inv |-> None]
    /\ lastError = [p \in Inv |-> None]
    /\ logged = [p \in Inv |-> FALSE]
    /\ consecutiveFailures = 0
    /\ failureWindowAge = -1
    /\ phase = "up"
    /\ exitCode = 0
    /\ checkedOut = 0
    /\ txLast = NoCall
    /\ failureLog = NoFailures
    /\ chainEpoch = 1
    /\ currentEpoch = 1
    /\ processedEpochs = {}
    /\ cycle = Sleeping
    /\ sweepLog = NoSweep
    /\ tipLog = NoTipRun

InitProgram ==
    /\ \E k \in 0..MaxEpoch : store = InitStore(1..k)
    /\ InitControl

\* No locator call
NoLocate == [latest |-> 0, blockSec |-> 0, seed |-> -1, seedTime |-> 0, short |-> 0, targetTime |-> 0,
             mode |-> None]

\* No harvest handed to the validator
NoStreams == [startRoundEvents |-> << >>, lockRoundEvents |-> << >>,
              endRoundEvents |-> << >>, betBullEvents |-> << >>,
              betBearEvents |-> << >>, claimEvents |-> << >>]

NoValidation == [done |-> FALSE]

\* generateMultiClaimData not called
NotDerived == [done |-> FALSE, rows |-> << >>]

\* the block-timestamp cache before any lookup
CacheBlocks == 1..MaxCacheBlocks
\* Map.get(blockNum) of a block that was never stored
NoEntry == [timestamp |-> 0, cachedAt |-> -1]
has(cache, b) == cache[b] # NoEntry
NoLookup == [n |-> 0, blocks |-> {}, fetched |-> {}, result |-> << >>]
\* the block-range cache before any call
RangeEpochs == 1..MaxRangeEpochs
NoData == [from |-> -1, to |-> -1, startTime |-> 0, endTime |-> 0]
NoRangeEntry == [data |-> NoData, timestamp |-> -1]
NoRangeCall == [n |-> 0, epoch |-> 0, outcome |-> "none", error |-> None, data |-> NoData]
CacheIdle ==
    /\ blockTimestampCache = [b \in CacheBlocks |-> NoEntry]
    /\ nowTick = 0
    /\ tsLookup = NoLookup
    /\ blockRangeCache = [e \in RangeEpochs |-> NoRangeEntry]
    /\ rangeLast = NoRangeCall

\* the harvester before any range is handed to it
NoRange == [fromBlock |-> 0, toBlock |-> 0, SLICE_SIZE |-> 0, failWindow |-> 0, failSlice |-> 0]
NotHarvested == [done |-> FALSE, windows |-> << >>]
HvIdle ==
    /\ hvCase = NoRange
    /\ hvResult = NotHarvested

\* the transaction handle before any typed operation
NoOperation == [seq |-> 0, op |-> "none", tableName |-> "", at |-> 0, qs |-> << >>,
                net |-> NetUp, ok |-> FALSE, step |-> 0, leaked |-> 0, before |-> << >>]
OpIdle == opLast = NoOperation

ExtIdle == CacheIdle /\ HvIdle /\ OpIdle

Init ==
    /\ InitProgram
    /\ locCase = NoLocate
    /\ locBlock = -1
    /\ valCase = NoStreams
    /\ valResult = NoValidation
    /\ mcCase = << >>
    /\ mcResult = NotDerived
    /\ ExtIdle

\* ---------------------------------------------------------------- actions
\* the per-invocation variables of p after a step
SetInv(p, newPc, e, acq, ttl, qf, out, err, lg) ==
    /\ pc' = [pc EXCEPT ![p] = newPc]
    /\ epoch' = [epoch EXCEPT ![p] = e]
    /\ acquired' = [acquired EXCEPT ![p] = acq]
    /\ ttlLeft' = [ttlLeft EXCEPT ![p] = ttl]
    /\ queryFailed' = [queryFailed EXCEPT ![p] = qf]
    /\ outcome' = [outcome EXCEPT ![p] = out]
    /\ lastError' = [lastError EXCEPT ![p] = err]
    /\ logged' = [logged EXCEPT ![p] = lg]

\* HisBetScraper.resetFailureCounter
\* Faulty variant of resetFailureCounter: failureWindowStart is left as it was
resetFailureCounterOnly ==
    IF consecutiveFailures > 0
    THEN consecutiveFailures' = 0 /\ UNCHANGED failureWindowAge
    ELSE UNCHANGED << consecutiveFailures, failureWindowAge >>

resetFailureCounter ==
    IF consecutiveFailures > 0
    THEN consecutiveFailures' = 0 /\ failureWindowAge' = -1
    ELSE UNCHANGED << consecutiveFailures, failureWindowAge >>

\* handleProcessingFailure: the first failure, or one later than
\* failureWindowDuration after failureWindowStart, starts a new window
windowRestarts(age) == age = -1 \/ age > WindowTicks

\* handleProcessingFailure: consecutiveFailures after the failure
countFailure(count, age) == IF windowRestarts(age) THEN 1 ELSE count + 1

\* Faulty variant of HisBetScraper.logError: the failed epoch's round row is
\* purged along with the log entry
scraperLogErrorPurging(st, e, msg, logOk) ==
    IF logOk
    THEN [st EXCEPT !.errEpoch[e] = msg, !.round = SelectSeq(@, LAMBDA r : r.epoch # e)]
    ELSE st

\* HisBetScraper.logError: the upsert, whose own failure is caught and logged.
\* logOk: the upsert reaches the store.
scraperLogError(st, e, msg, logOk) == IF logOk THEN logError(st, e, msg) ELSE st

\* The catch block of processEpoch: handleProcessingFailure, which logs the
\* error, counts the failure and at the threshold runs forceShutdown up to the
\* closing of the connections.  stage: the step that threw; msg: the error
\* text; qf: a log query failed before the error.
HandleProcessingFailure(p, e, stage, msg, qf, logOk) ==
    LET newWindow == windowRestarts(failureWindowAge)
        count == countFailure(consecutiveFailures, failureWindowAge)
        trips == count >= maxConsecutiveFailures /\ phase = "up"
    IN  /\ store' = scraperLogError(store, e, msg, logOk /\ phase = "up")
        /\ consecutiveFailures' = count
        /\ failureWindowAge' = IF newWindow THEN 0 ELSE failureWindowAge
        /\ phase' = IF trips THEN "closing" ELSE phase
        /\ exitCode' = IF trips THEN 1 ELSE exitCode
        /\ SetInv(p, IF trips THEN "shutdown" ELSE "finally", e, acquired[p], ttlLeft[p],
                  qf, stage, msg,
                  logOk /\ phase = "up")

\* processEpoch entry: the driver hands epoch e to the pipeline, which runs
\* db.checkFinEpoch.  dbOk: the query reaches the store.
Start(p, e) ==
    /\ pc[p] = "idle"
    /\ phase # "down"
    /\ consecutiveFailures <= maxConsecutiveFailures
    /\ UNCHANGED << lock, checkedOut, auxVars >>
    /\ \E dbOk \in BOOLEAN :
          IF ~(dbOk /\ phase = "up")
          THEN \E logOk \in BOOLEAN : HandleProcessingFailure(p, e, "abortCheck", Unavailable, FALSE, logOk)
          ELSE IF checkFinEpoch(store, e)
          THEN /\ resetFailureCounter
               /\ SetInv(p, "finally", e, FALSE, 0, FALSE, "skipDone", None, FALSE)
               /\ UNCHANGED << store, phase, exitCode >>
          ELSE /\ SetInv(p, "acquire", e, FALSE, 0, FALSE, None, None, FALSE)
               /\ UNCHANGED << store, consecutiveFailures, failureWindowAge, phase, exitCode >>

\* Faulty variant of the SET command: NX without EX, the key never expires
SetNxOnly(keyTtl, served) ==
    IF ~served THEN [reply |-> "error", ttl |-> keyTtl]
    ELSE IF keyTtl = 0 THEN [reply |-> "OK", ttl |-> -1]
    ELSE [reply |-> "nil", ttl |-> keyTtl]

\* The lock service executing SET key 'processing' NX EX ttl.  keyTtl: the
\* remaining life of the key, 0 when absent.  served: the command reaches the
\* service and is answered.
SetNxEx(keyTtl, served) ==
    IF ~served THEN [reply |-> "error", ttl |-> keyTtl]
    ELSE IF keyTtl = 0 THEN [reply |-> "OK", ttl |-> LockTtlTicks]
    ELSE [reply |-> "nil", ttl |-> keyTtl]

\* Faulty variant of acquireLock: the catch block reports success
acquireLockFailOpen(reply) ==
    IF reply = "nil" THEN "false" ELSE "true"

\* RedisLock.acquireLock: what it makes of the reply
acquireLock(reply) ==
    IF reply = "error" THEN "throw"
    ELSE IF reply = "OK" THEN "true" ELSE "false"

\* processEpoch, the lock step
AcquireLock(p) ==
    /\ pc[p] = "acquire"
    /\ \E served \in BOOLEAN :
          LET e == epoch[p]
              set == SetNxEx(lock[e], served /\ phase = "up")
              r == acquireLock(set.reply)
              own == set.reply = "OK"
          IN  /\ lock' = [lock EXCEPT ![e] = set.ttl]
              /\ UNCHANGED << checkedOut, auxVars >>
              /\ CASE r = "throw" ->
                        \E logOk \in BOOLEAN :
                           HandleProcessingFailure(p, e, "abortLock", Unavailable, FALSE, logOk)
                   [] r = "true" ->
                        /\ SetInv(p, "process", e, own, IF own THEN set.ttl ELSE 0,
                                  FALSE, None, None, FALSE)
                        /\ UNCHANGED << store, consecutiveFailures, failureWindowAge,
                                        phase, exitCode >>
                   [] r = "false" ->
                        /\ SetInv(p, "finally", e, FALSE, 0, FALSE, "skipLock", None, FALSE)
                        /\ UNCHANGED << store, consecutiveFailures, failureWindowAge,
                                        phase, exitCode >>

\* handleEpochProcessing and the resetFailureCounter after it: the block
\* range (an RPC error throws), the harvest (a failed log query yields no
\* events of its stream), validation, the cross-epoch summary, the commit.
\* dbOk: the transaction's connection works.
HandleEpochProcessing(p) ==
    /\ pc[p] = "process"
    /\ UNCHANGED << lock, auxVars >>
    /\ \E rpcOk \in BOOLEAN, failed \in SUBSET HarvestedStreams, dbOk \in BOOLEAN, logOk \in BOOLEAN :
          LET e == epoch[p]
              range == BlockRangeOf(e)
              ev == FetchEventsInRange(range.from, range.to, failed)
              vr == validateEpochData(ev)
              up == dbOk /\ phase = "up"
              tx == executeTransaction(store,
                        CommitCallback(e, vr, generateMultiClaimData(vr.claimData)),
                        IF up THEN NetUp ELSE NetDown, checkedOut)
          IN  IF ~rpcOk
              THEN /\ failed = {} /\ dbOk
                   /\ UNCHANGED checkedOut
                   /\ HandleProcessingFailure(p, e, "abortLocate", Unavailable, FALSE, logOk)
              ELSE IF ~vr.isValid
              THEN /\ dbOk
                   /\ UNCHANGED checkedOut
                   /\ HandleProcessingFailure(p, e, "abortValidate", ValidationFailed, failed # {}, logOk)
              ELSE IF ~tx.ok
              THEN /\ checkedOut' = checkedOut + tx.leaked
                   /\ HandleProcessingFailure(p, e, "abortCommit", tx.error, failed # {}, logOk)
              ELSE /\ logOk
                   /\ UNCHANGED checkedOut
                   /\ store' = tx.store
                   /\ resetFailureCounter
                   /\ SetInv(p, "finally", e, acquired[p], ttlLeft[p], failed # {}, "ok", None, FALSE)
                   /\ UNCHANGED << phase, exitCode >>

\* The finally block of processEpoch: redis.releaseLock, whose error is
\* caught and logged.  redisOk: the DEL reaches the lock service.
Finally(p) ==
    /\ pc[p] = "finally"
    /\ \E redisOk \in BOOLEAN :
          lock' = IF redisOk /\ phase = "up" THEN [lock EXCEPT ![epoch[p]] = 0] ELSE lock
    /\ SetInv(p, "idle", 0, FALSE, 0, FALSE, None, None, FALSE)
    /\ UNCHANGED << store, consecutiveFailures, failureWindowAge, phase, exitCode,
                    checkedOut, auxVars >>

\* HisBetScraper.gracefulShutdown up to the closing of the connections
\* (signal, or the 30-minute restart timer)
GracefulShutdown ==
    /\ phase = "up"
    /\ phase' = "closing"
    /\ exitCode' = 0
    /\ UNCHANGED << store, lock, invVars, consecutiveFailures, failureWindowAge,
                    checkedOut, auxVars >>

\* process.exit at the end of gracefulShutdown and forceShutdown: every
\* invocation ends where it is
Exit ==
    /\ phase = "closing"
    /\ phase' = "down"
    /\ pc' = [p \in Inv |-> "exited"]
    /\ queryFailed' = [p \in Inv |-> FALSE]
    /\ outcome' = [p \in Inv |-> None]
    /\ lastError' = [p \in Inv |-> None]
    /\ logged' = [p \in Inv |-> FALSE]
    /\ UNCHANGED << store, lock, epoch, acquired, ttlLeft,
                    consecutiveFailures, failureWindowAge, exitCode, checkedOut, auxVars >>

\* The supervisor starts the process again: HisBetScraper.constructor
Restart ==
    /\ phase = "down"
    /\ phase' = "up"
    /\ exitCode' = 0
    /\ consecutiveFailures' = 0
    /\ failureWindowAge' = -1
    /\ pc' = [p \in Inv |-> "idle"]
    /\ epoch' = [p \in Inv |-> 0]
    /\ acquired' = [p \in Inv |-> FALSE]
    /\ ttlLeft' = [p \in Inv |-> 0]
    /\ queryFailed' = [p \in Inv |-> FALSE]
    /\ outcome' = [p \in Inv |-> None]
    /\ lastError' = [p \in Inv |-> None]
    /\ logged' = [p \in Inv |-> FALSE]
    /\ checkedOut' = 0
    /\ UNCHANGED << store, lock, auxVars >>

\* TickSec seconds pass: key TTLs run down (Redis EX), the failure window ages
Tick ==
    /\ lock' = [e \in Epochs |-> IF lock[e] > 0 THEN lock[e] - 1 ELSE lock[e]]
    /\ ttlLeft' = [p \in Inv |-> IF ttlLeft[p] > 0 THEN ttlLeft[p] - 1 ELSE 0]
    /\ failureWindowAge' = IF failureWindowAge = -1 \/ failureWindowAge > WindowTicks
                           THEN failureWindowAge ELSE failureWindowAge + 1
    /\ UNCHANGED << store, pc, epoch, acquired, queryFailed, outcome, lastError, logged,
                    consecutiveFailures, phase, exitCode, checkedOut, auxVars >>

Next ==
    \/ \E p \in Inv, e \in Epochs : Start(p, e)
    \/ \E p \in Inv : AcquireLock(p)
    \/ \E p \in Inv : HandleEpochProcessing(p)
    \/ \E p \in Inv : Finally(p)
    \/ GracefulShutdown
    \/ Exit
    \/ Restart
    \/ Tick

Spec == Init /\ [][Next]_vars

\* The clock never stops: the lock service expires keys as time passes.
\* The tables play no part in the life of a key; the store starts without
\* completed epochs.
LiveInit == Init /\ store.finEpoch = {}
LiveSpec == LiveInit /\ [][Next]_vars /\ WF_vars(Tick)

\* --------------------------------------------- the executor on its own
\* The callback handleEpochProcessing builds for an epoch whose six streams
\* passed validation
ValidatedCallback(e) ==
    CommitCallback(e, CompletedRows(e), generateMultiClaimData(CompletedRows(e).claimData))

\* What can happen to one transaction, each case once: the fields that play
\* no part in a case are held at TRUE or 0
NetCases(n) ==
    { net \in [connect : BOOLEAN, begin : BOOLEAN, lostAt : 0..n,
               commit : BOOLEAN, rollback : BOOLEAN] :
        /\ ~net.connect => (net.begin /\ net.lostAt = 0 /\ net.commit /\ net.rollback)
        /\ ~net.begin => (net.lostAt = 0 /\ net.commit /\ net.rollback)
        /\ net.lostAt > 0 => net.commit }

\* executeTransaction applied to a caller-supplied function, then the catch
\* block's error logging when it threw.  The function is the commit
\* sequence of epoch e from its statement `from' on, so that every statement
\* of the sequence is the first to reach the store in some call.
TransactionalWrite(e, from) ==
    /\ checkedOut < MaxCheckedOut
    /\ from <= Len(ValidatedCallback(e))
    /\ \E qs \in {SubSeq(ValidatedCallback(e), from, Len(ValidatedCallback(e)))} :
       \E net \in NetCases(Len(qs)) :
       \E tx \in {executeTransaction(store, qs, net, checkedOut)} :
       \E logOk \in (IF tx.ok THEN {FALSE} ELSE BOOLEAN) :
          /\ checkedOut' = checkedOut + tx.leaked
          /\ store' = IF tx.ok THEN tx.store
                      ELSE scraperLogError(tx.store, e, tx.error, logOk)
          /\ txLast' = [seq |-> 1 - txLast.seq, epoch |-> e, ok |-> tx.ok,
                        step |-> tx.step, error |-> tx.error, logged |-> logOk]
    /\ UNCHANGED << lock, invVars, consecutiveFailures, failureWindowAge, phase, exitCode,
                    brkVars, schedVars, fnVars >>

\* Database.disconnect and connect: the pool is ended and a new one created
PoolReconnect ==
    /\ checkedOut > 0
    /\ checkedOut' = 0
    /\ UNCHANGED << store, lock, invVars, consecutiveFailures, failureWindowAge, phase,
                    exitCode, auxVars >>

TxNext ==
    \/ \E e \in Epochs, from \in 1..6 : TransactionalWrite(e, from)
    \/ PoolReconnect

TxSpec == Init /\ [][TxNext]_vars

\* ------------------------------------- the failure accounting on its own
\* processEpoch as the failure accounting sees it: an invocation ends as a
\* skip at the completion check (which calls resetFailureCounter), a skip at
\* the lock, a successful processing (resetFailureCounter) or a failure
\* (handleProcessingFailure, which at the threshold starts forceShutdown).
ProcessEpochEnds(result) ==
    /\ phase # "down"
    /\ consecutiveFailures <= maxConsecutiveFailures
    /\ CASE result = "skipDone" ->
               /\ resetFailureCounter
               /\ failureLog' = [failureLog EXCEPT !.seq = 1 - @, !.outcome = result, !.m = 0]
               /\ UNCHANGED << phase, exitCode >>
         [] result = "skipLock" ->
               /\ failureLog' = [failureLog EXCEPT !.seq = 1 - @, !.outcome = result]
               /\ UNCHANGED << consecutiveFailures, failureWindowAge, phase, exitCode >>
         [] result = "ok" ->
               /\ resetFailureCounter
               /\ failureLog' = [seq |-> 1 - failureLog.seq, outcome |-> result,
                                 n |-> 0, m |-> 0, a1 |-> -1, a2 |-> -1]
               /\ UNCHANGED << phase, exitCode >>
         [] result = "abort" ->
               LET count == countFailure(consecutiveFailures, failureWindowAge)
                   trips == count >= maxConsecutiveFailures /\ phase = "up"
               IN  /\ consecutiveFailures' = count
                   /\ failureWindowAge' = IF windowRestarts(failureWindowAge)
                                          THEN 0 ELSE failureWindowAge
                   /\ phase' = IF trips THEN "closing" ELSE phase
                   /\ exitCode' = IF trips THEN 1 ELSE exitCode
                   /\ failureLog' = [seq |-> 1 - failureLog.seq, outcome |-> result,
                                     n |-> IF failureLog.n < 3 THEN failureLog.n + 1 ELSE 3,
                                     m |-> IF failureLog.m < 3 THEN failureLog.m + 1 ELSE 3,
                                     a1 |-> 0, a2 |-> failureLog.a1]
    /\ UNCHANGED << store, lock, invVars, checkedOut, txVars, schedVars, fnVars >>

\* TickSec seconds pass
BreakerTick ==
    /\ failureWindowAge' = IF failureWindowAge = -1 \/ failureWindowAge > WindowTicks
                           THEN failureWindowAge ELSE failureWindowAge + 1
    /\ failureLog' = [failureLog EXCEPT
                         !.a1 = IF @ = -1 \/ @ > WindowTicks THEN @ ELSE @ + 1,
                         !.a2 = IF @ = -1 \/ @ > WindowTicks THEN @ ELSE @ + 1]
    /\ UNCHANGED << store, lock, invVars, consecutiveFailures, phase, exitCode, checkedOut,
                    txVars, schedVars, fnVars >>

BreakerNext ==
    \/ \E result \in {"skipDone", "skipLock", "ok", "abort"} : ProcessEpochEnds(result)
    \/ BreakerTick
    \/ GracefulShutdown
    \/ Exit

BreakerSpec == Init /\ [][BreakerNext]_vars

\* ------------------------------------------- the schedules on their own
\* what the schedules leave alone
nonSchedVars == << store, lock, invVars, consecutiveFailures, failureWindowAge, phase,
                  exitCode, checkedOut, txVars, brkVars, fnVars >>

\* The chain opens its next round
ChainAdvance ==
    /\ chainEpoch < MaxChainEpoch
    /\ chainEpoch' = chainEpoch + 1
    /\ UNCHANGED << currentEpoch, processedEpochs, cycle, sweepLog, tipLog, nonSchedVars >>

\* mainThreadLoop, start of a cycle: getCurrentEpoch and the loop variables
CycleStart ==
    /\ cycle.pc = "sleeping"
    /\ cycle' = [pc |-> "loop", startEpoch |-> chainEpoch - 2, targetEpoch |-> chainEpoch - 2,
                 processedInThisCycle |-> 0]
    /\ sweepLog' = NoSweep
    /\ UNCHANGED << chainEpoch, currentEpoch, processedEpochs, tipLog, nonSchedVars >>

\* Faulty variant of the loop condition: no limit per cycle
cycleContinuesUnlimited(targetEpoch, processedInThisCycle) == targetEpoch > 0

\* mainThreadLoop, the condition of the while loop
cycleContinues(targetEpoch, processedInThisCycle) ==
    targetEpoch > 0 /\ processedInThisCycle < maxPerCycle

\* How processEpoch(e) ends for the scheduler: it returns after a skip at
\* the completion check, a skip at the lock, or a failure that the pipeline
\* caught itself; it never throws.  (It does not return after a successful
\* processing: validation rejects every harvest.)
PipelineOutcomes(e) ==
    IF checkFinEpoch(store, e) THEN {"skipDone"} ELSE {"skipLock", "abort"}

\* Faulty variant of the step past an epoch already attempted: the target stays
sameTarget(targetEpoch) == targetEpoch

\* targetEpoch--
nextTarget(targetEpoch) == targetEpoch - 1

\* mainThreadLoop, one evaluation of the while condition and one pass
\* through the loop body, or the end of the cycle
CycleStep ==
    /\ cycle.pc = "loop"
    /\ IF ~cycleContinues(cycle.targetEpoch, cycle.processedInThisCycle)
       THEN /\ cycle' = [cycle EXCEPT !.pc = "sleeping"]
            /\ UNCHANGED << processedEpochs, sweepLog >>
       ELSE IF cycle.targetEpoch \in processedEpochs
       THEN /\ cycle' = [cycle EXCEPT !.targetEpoch = nextTarget(@)]
            /\ UNCHANGED << processedEpochs, sweepLog >>
       ELSE \E out \in PipelineOutcomes(cycle.targetEpoch) :
               /\ processedEpochs' = processedEpochs \cup {cycle.targetEpoch}
               /\ cycle' = [cycle EXCEPT !.targetEpoch = nextTarget(@),
                                         !.processedInThisCycle = @ + 1]
               /\ sweepLog' = [sweepLog EXCEPT !.invocations = @ + 1,
                                               !.lastInvoked = cycle.targetEpoch,
                                               !.outcome = out]
    /\ UNCHANGED << chainEpoch, currentEpoch, tipLog, nonSchedVars >>

\* Faulty variant of the tip-runner's targets: a single epoch
tipTargetsOne(cur) == SelectSeq(<< cur - 2 >>, LAMBDA e : e > 0)

\* HisBetScraper.startSecondaryThread, targetEpochs
tipTargets(cur) == SelectSeq(<< cur - 2, cur - 3, cur - 4 >>, LAMBDA e : e > 0)

\* One run of the tip-runner (after the initial delay, then every interval):
\* processEpochs hands its targets to the pipeline one after the other
TipRun ==
    /\ tipLog' = [seq |-> 1 - tipLog.seq, ran |-> TRUE, targets |-> tipTargets(currentEpoch)]
    /\ UNCHANGED << chainEpoch, currentEpoch, processedEpochs, cycle, sweepLog, nonSchedVars >>

\* The process is restarted (every mainThreadRestartInterval, or after a
\* shutdown): initialize reads the chain's epoch, the scheduler is new
ProcessRestart ==
    /\ currentEpoch' = chainEpoch
    /\ processedEpochs' = {}
    /\ cycle' = Sleeping
    /\ sweepLog' = NoSweep
    /\ tipLog' = NoTipRun
    /\ UNCHANGED << chainEpoch, nonSchedVars >>

SchedNext ==
    \/ ChainAdvance
    \/ CycleStart
    \/ CycleStep
    \/ TipRun
    \/ ProcessRestart

SchedSpec == Init /\ [][SchedNext]_vars

\* the schedules with the sweeper's loop running on: each await of the loop
\* body returns, so an enabled pass through the loop is eventually taken
SchedLiveSpec == SchedSpec /\ WF_vars(CycleStep)

\* ------------------------------------------------ the locator on its own
\* provider.getBlock(h).timestamp on a chain that produces a block every
\* blockSec seconds
TimestampOf(c, h) == c.blockSec * h

Min2(a, b) == IF a < b THEN a ELSE b
Max2(a, b) == IF a > b THEN a ELSE b

\* fixed stride of the adjustment
step == 100

\* Math.floor(latest - (60 * 60 * 24) * bps) with bps = 110 / 300
dayOfBlocks == 31680

\* findBlockForTime, step 2: the first guess. seed is the first block of the
\* newest cached range and seedTime that range's start time, -1 without a cache.
\* The product (targetTime - refTime) * bps is taken in double precision:
\* where the exact product is an integer the double can fall just below
\* it, and short says whether it did.
GuessOf(c) ==
    IF c.seed >= 0
    THEN LET d == c.targetTime - c.seedTime
             delta == ((d * 110) \div 300) - c.short
         IN  Max2(0, Min2(c.latest, c.seed + delta))
    ELSE Max2(0, Min2(c.latest, c.latest - dayOfBlocks))

\* findBlockForTime, step 3: at most three strides
RECURSIVE Adjust(_, _, _)
Adjust(c, block, attempts) ==
    IF attempts >= 3 THEN block
    ELSE LET prev == Max2(0, block - step)
             next == Min2(c.latest, block + step)
         IN  IF c.mode = "gte"
             THEN IF TimestampOf(c, block) >= c.targetTime
                  THEN IF TimestampOf(c, prev) >= c.targetTime
                       THEN Adjust(c, prev, attempts + 1)
                       ELSE block
                  ELSE Adjust(c, next, attempts + 1)
             ELSE IF TimestampOf(c, block) < c.targetTime
                  THEN IF TimestampOf(c, next) < c.targetTime
                       THEN Adjust(c, next, attempts + 1)
                       ELSE block
                  ELSE Adjust(c, prev, attempts + 1)

\* findBlockForTime, step 4: at most two halvings of [block - step, block + step]
RECURSIVE Bisect(_, _, _, _, _)
Bisect(c, left, right, block, iterations) ==
    IF iterations >= 2 \/ left > right THEN block
    ELSE LET mid == (left + right) \div 2
         IN  IF c.mode = "gte"
             THEN IF TimestampOf(c, mid) >= c.targetTime
                  THEN Bisect(c, left, mid - 1, mid, iterations + 1)
                  ELSE Bisect(c, mid + 1, right, block, iterations + 1)
             ELSE IF TimestampOf(c, mid) < c.targetTime
                  THEN Bisect(c, mid + 1, right, mid, iterations + 1)
                  ELSE Bisect(c, left, mid - 1, block, iterations + 1)

\* Faulty variant of the stop of the walk to the left: it stops at every
\* second multiple of the stride only
leftScanEndsLate(block) == block % (2 * step) = 0

\* if (block % step === 0) break: the walk to the left stops at a multiple of
\* the stride
leftScanEnds(block) == block % step = 0

\* findBlockForTime, boundary correction of mode gte
RECURSIVE SweepLeft(_, _)
SweepLeft(c, block) ==
    IF block > 0 /\ TimestampOf(c, block - 1) >= c.targetTime
    THEN IF leftScanEnds(block - 1) THEN block - 1 ELSE SweepLeft(c, block - 1)
    ELSE block

\* findBlockForTime, boundary correction of mode lt
RECURSIVE SweepRight(_, _, _)
SweepRight(c, block, guess) ==
    IF block < c.latest /\ TimestampOf(c, block + 1) < c.targetTime
    THEN IF (block + 1) - guess > step THEN block + 1 ELSE SweepRight(c, block + 1, guess)
    ELSE block

\* findBlockForTime, the candidate block after steps 3 and 4, and
\* EventScraper.findBlockForTime(targetTime, mode), every getBlock answered
BeforeSweep(c) ==
    LET block3 == Adjust(c, GuessOf(c), 0)
    IN  Bisect(c, Max2(0, block3 - step), Min2(c.latest, block3 + step), block3, 0)

findBlockForTime(c) ==
    IF c.mode = "gte" THEN SweepLeft(c, BeforeSweep(c))
    ELSE SweepRight(c, BeforeSweep(c), GuessOf(c))

\* the block of the newest cached range
AnchorBlock == ChainLatest \div 2

\* The calls: a target time at or just before the time of a block that lies
\* up to MaxHops hops on either side of the anchor, located from the anchor
\* or without a cache
LocateCases ==
    LET call(bs, seed, short, mode, k, off) ==
            [latest |-> ChainLatest, blockSec |-> bs, seed |-> seed,
             seedTime |-> IF seed >= 0 THEN bs * seed ELSE 0, short |-> short,
             mode |-> mode, targetTime |-> bs * (AnchorBlock + k * HopBlocks) - off]
        all == { call(bs, seed, short, mode, k, off) :
                    bs \in 1..MaxBlockSec, seed \in {-1, AnchorBlock}, short \in {0, 1},
                    mode \in {"gte", "lt"}, k \in (0 - MaxHops)..MaxHops, off \in {0, 1} }
    IN  { c \in all :
            c.short = 1 =>
               c.seed >= 0 /\ (c.targetTime - c.seedTime) % 30 = 0 }

LocInit ==
    /\ InitProgram
    /\ store.finEpoch = {}
    /\ locCase \in LocateCases
    /\ locBlock = -1
    /\ valCase = NoStreams
    /\ valResult = NoValidation
    /\ mcCase = << >>
    /\ mcResult = NotDerived
    /\ ExtIdle

Locate ==
    /\ locBlock = -1
    /\ locBlock' = findBlockForTime(locCase)
    /\ UNCHANGED << locCase, store, lock, invVars, consecutiveFailures, failureWindowAge,
                    phase, exitCode, checkedOut, txVars, brkVars, schedVars, valVars, mcVars, extVars >>

LocNext == Locate

LocSpec == LocInit /\ [][LocNext]_vars

\* ---------------------------------------------- the validator on its own
\* The epoch handed to handleEpochProcessing
TargetEpoch == 3

\* The stake events a harvest of the target's window can hold: two stakes of
\* the target epoch, one of the next epoch below the fourth decimal and one
\* of the epoch before (a window that reaches past the target's round)
StakePool ==
    << [epoch |-> TargetEpoch - 1, blockNumber |-> 5, sender |-> "0xB", amount |-> 2 * BNB],
       [epoch |-> TargetEpoch, blockNumber |-> 6, sender |-> "0xA", amount |-> BNB],
       [epoch |-> TargetEpoch, blockNumber |-> 7, sender |-> "0xB", amount |-> 3 * BNB],
       [epoch |-> TargetEpoch + 1, blockNumber |-> 8, sender |-> "0xA", amount |-> 3] >>

\* The claim events it can hold: rewards of two earlier epochs, and an event
\* without sender
ClaimPool ==
    << [epoch |-> TargetEpoch - 1, blockNumber |-> 6, sender |-> "0xA", amount |-> 2 * BNB],
       [epoch |-> TargetEpoch - 2, blockNumber |-> 7, sender |-> "0xB", amount |-> 30000],
       [epoch |-> TargetEpoch - 1, blockNumber |-> 7, sender |-> "", amount |-> BNB] >>

\* The events of pool at the positions of idx, in the order of the chain, as
\* the stream of the given type (parseEvent)
StreamOf(type, pool, idx) ==
    LET at == SelectSeq([i \in 1..Len(pool) |-> i], LAMBDA i : i \in idx)
    IN  [k \in 1..Len(at) |->
            Ev(type, pool[at[k]].epoch, pool[at[k]].blockNumber, pool[at[k]].sender,
               pool[at[k]].amount, 0)]

UpTo(n, pool) == { idx \in SUBSET (1..Len(pool)) : Cardinality(idx) <= n }

\* The harvests: the StartRound stream is empty, holds the target's event, or
\* begins with the event of the round before (a window that begins too
\* early); the LockRound and EndRound streams are empty or hold the target's
\* event
ValidateCases ==
    { [startRoundEvents |-> sr, lockRoundEvents |-> lr, endRoundEvents |-> er,
       betBullEvents |-> StreamOf("BetBull", StakePool, bull),
       betBearEvents |-> StreamOf("BetBear", StakePool, bear),
       claimEvents |-> StreamOf("Claim", ClaimPool, cl)] :
         sr \in { << >>, << Ev("StartRound", TargetEpoch, 6, "", 0, 0) >>,
                  << Ev("StartRound", TargetEpoch - 1, 4, "", 0, 0),
                     Ev("StartRound", TargetEpoch, 6, "", 0, 0) >> },
         lr \in { << >>, << Ev("LockRound", TargetEpoch, 8, "", 0, 500) >> },
         er \in { << >>, << Ev("EndRound", TargetEpoch, 9, "", 0, 490) >>,
                  << Ev("EndRound", TargetEpoch, 9, "", 0, 510) >> },
         bull \in UpTo(MaxStakes, StakePool), bear \in UpTo(MaxStakes, StakePool),
         cl \in UpTo(MaxClaimEvents, ClaimPool) }

\* the store of a deployment that completed no epoch up to the target
ValStore ==
    [InitStore({}) EXCEPT !.realBet = 1..TargetEpoch,
                          !.errEpoch = [e \in 1..TargetEpoch |-> None]]

ValInit ==
    /\ InitControl
    /\ store = ValStore
    /\ locCase = NoLocate
    /\ locBlock = -1
    /\ valCase \in ValidateCases
    /\ valResult = NoValidation
    /\ mcCase = << >>
    /\ mcResult = NotDerived
    /\ ExtIdle

\* handleEpochProcessing from step 5 on, and the logError of the catch block
\* of processEpoch when it throws: validation, the throw on an invalid
\* result, generateMultiClaimData and the commit.  logOk: the error-log
\* write reaches the store.
ValidateAndCommit ==
    /\ ~valResult.done
    /\ \E vr \in {validateEpochData(valCase)} :
       \E tx \in {IF vr.isValid
                  THEN executeTransaction(store,
                          CommitCallback(TargetEpoch, vr, generateMultiClaimData(vr.claimData)),
                          NetUp, checkedOut)
                  ELSE [ok |-> FALSE, store |-> store, error |-> ValidationFailed,
                        step |-> 0, leaked |-> 0]} :
       \E error \in {IF tx.ok THEN None ELSE tx.error} :
       \E logOk \in (IF error = None THEN {FALSE} ELSE BOOLEAN) :
          /\ valResult' = [done |-> TRUE, vr |-> vr, error |-> error, logged |-> logOk]
          /\ store' = IF error = None THEN tx.store
                      ELSE scraperLogError(store, TargetEpoch, error, logOk)
    /\ UNCHANGED << valCase, lock, invVars, consecutiveFailures, failureWindowAge, phase,
                    exitCode, checkedOut, txVars, brkVars, schedVars, locVars, mcVars, extVars >>

ValNext == ValidateAndCommit

ValSpec == ValInit /\ [][ValNext]_vars

\* --------------------------------------- the MultiClaim rows on their own
\* The amounts of the Claim records: 0.1, 0.3 and 0.6
ClaimAmounts == {10000, 30000, 60000}

\* The Claim records of the target epoch validation can hand over: up to
\* MaxClaims records of two wallets
ClaimLists ==
    UNION { [1..n -> [epoch : {TargetEpoch}, walletAddress : {"0xa", "0xb"},
                      betEpoch : {TargetEpoch - 1}, claimAmount : ClaimAmounts]] :
               n \in 0..MaxClaims }

McInit ==
    /\ InitProgram
    /\ store.finEpoch = {}
    /\ locCase = NoLocate
    /\ locBlock = -1
    /\ valCase = NoStreams
    /\ valResult = NoValidation
    /\ mcCase \in ClaimLists
    /\ mcResult = NotDerived
    /\ ExtIdle

\* handleEpochProcessing, step 6
DeriveMultiClaim ==
    /\ ~mcResult.done
    /\ mcResult' = [done |-> TRUE, rows |-> generateMultiClaimData(mcCase)]
    /\ UNCHANGED << mcCase, store, lock, invVars, consecutiveFailures, failureWindowAge,
                    phase, exitCode, checkedOut, txVars, brkVars, schedVars, locVars, valVars, extVars >>

McNext == DeriveMultiClaim

McSpec == McInit /\ [][McNext]_vars

\* ------------------------------------------ the block-timestamp cache alone
\* (EventScraper.getBlockTimestampsBatch and cleanExpiredCache, with the clock)
progVars == << store, lock, invVars, consecutiveFailures, failureWindowAge, phase,
               exitCode, checkedOut, txVars, brkVars, schedVars >>

FnIdle ==
    /\ locCase = NoLocate
    /\ locBlock = -1
    /\ valCase = NoStreams
    /\ valResult = NoValidation
    /\ mcCase = << >>
    /\ mcResult = NotDerived

timestampCacheExpiry == 60 * 60 * 1000
cacheExpiry == 30 * 60 * 1000

\* the wall clock when the process starts, in seconds: the time of the head block
\* of a chain that makes a block every MaxBlockSec seconds
ClockStartSec == MaxBlockSec * ChainLatest

\* Date.now(), in milliseconds
DateNow(tick) == (ClockStartSec + tick * TickSec) * 1000

\* block.timestamp of the chain's header, in seconds
BlockTime(b) == ClockStartSec - 1000 + 3 * b

isFresh(now, cached) == now - cached.timestamp < timestampCacheExpiry

\* getBlockTimestampsBatch(blockNumbers): rpcOk is the set of blocks whose getBlock answers
getBlockTimestampsBatch(cache, now, blockNumbers, rpcOk) ==
    LET uncachedBlocks == { b \in blockNumbers : ~(has(cache, b) /\ isFresh(now, cache[b])) }
        fetchedTime(b) == IF b \in rpcOk THEN BlockTime(b) ELSE now \div 1000
    IN  [fetched |-> uncachedBlocks,
         result  |-> [b \in blockNumbers |->
                        IF b \in uncachedBlocks THEN fetchedTime(b) ELSE cache[b].timestamp],
         cache   |-> [b \in CacheBlocks |->
                        IF b \in uncachedBlocks
                        THEN [timestamp |-> fetchedTime(b), cachedAt |-> now]
                        ELSE cache[b]]]

\* the timestamp half of cleanExpiredCache
cleanExpiredCache(cache, now) ==
    [b \in CacheBlocks |->
        IF has(cache, b) /\ now - cache[b].timestamp > timestampCacheExpiry
        THEN NoEntry ELSE cache[b]]

\* the block-range half of cleanExpiredCache
hasRange(cache, e) == cache[e] # NoRangeEntry

cleanExpiredRanges(cache, now) ==
    [e \in RangeEpochs |->
        IF hasRange(cache, e) /\ now - cache[e].timestamp > cacheExpiry
        THEN NoRangeEntry ELSE cache[e]]

\* getCachedBlockRange(epoch): NoData stands for null
getCachedBlockRange(cache, now, e) ==
    IF hasRange(cache, e) /\ now - cache[e].timestamp < cacheExpiry
    THEN cache[e].data ELSE NoData

\* setCachedBlockRange(epoch, data)
setCachedBlockRange(cache, now, e, data) ==
    [cache EXCEPT ![e] = [data |-> data, timestamp |-> now]]

\* findBlockForTime, step 2: the cached range with the latest start time
NewestCached(cache) ==
    LET cached == { e \in RangeEpochs : hasRange(cache, e) }
    IN  IF cached = {} THEN NoData
        ELSE cache[CHOOSE e \in cached :
                      \A f \in cached : cache[f].data.startTime <= cache[e].data.startTime].data

\* the findBlockForTime call getBlockRangeForEpoch makes for a time and a mode
LocateCall(cache, targetTime, mode, short) ==
    LET ref == NewestCached(cache)
    IN  [latest |-> ChainLatest, blockSec |-> MaxBlockSec, seed |-> ref.from,
         seedTime |-> ref.startTime, short |-> short, mode |-> mode, targetTime |-> targetTime]

\* the product (targetTime - refTime) * bps can fall short only where it is an integer
mayFallShort(c) == c.seed >= 0 /\ (c.targetTime - c.seedTime) % 30 = 0

\* the check of the located blocks (faulty variant first: nothing is checked)
blocksInOrderUnchecked(startBlock, endBlock) == TRUE

blocksInOrder(startBlock, endBlock) == ~(endBlock < startBlock)

\* contract.rounds(epoch).startTimestamp of a round that has started: the rounds
\* began a day before the head block, HopBlocks blocks apart
RoundStart(e) == MaxBlockSec * (ChainLatest - dayOfBlocks + (e - 1) * HopBlocks)

\* getBlockRangeForEpoch(epoch).  startTime: rounds(epoch).startTimestamp; next:
\* rounds(epoch + 1).startTimestamp, -1 when that call throws; rpcOk: the calls
\* of the locator are answered; shortS, shortE: the two products fall short.
getBlockRangeForEpoch(cache, now, e, startTime, next, rpcOk, shortS, shortE) ==
    LET cached == getCachedBlockRange(cache, now, e)
        cleaned == cleanExpiredRanges(cache, now)
        endTime == IF next > 0 THEN next ELSE now \div 1000
        startBlock == findBlockForTime(LocateCall(cleaned, startTime, "gte", shortS))
        endBlock == findBlockForTime(LocateCall(cleaned, endTime, "lt", shortE))
        result == [from |-> startBlock, to |-> endBlock,
                   startTime |-> startTime, endTime |-> endTime]
        throw(error) == [outcome |-> "throw", error |-> error, data |-> NoData,
                         cache |-> cleaned]
    IN  IF cached # NoData
        THEN [outcome |-> "cached", error |-> None, data |-> cached, cache |-> cache]
        ELSE IF startTime = 0 THEN throw("round not started")
        ELSE IF endTime <= startTime THEN throw("time range invalid")
        ELSE IF ~rpcOk THEN throw(Unavailable)
        ELSE IF ~blocksInOrder(startBlock, endBlock) THEN throw("block range invalid")
        ELSE [outcome |-> "located", error |-> None, data |-> result,
              cache |-> setCachedBlockRange(cleaned, now, e, result)]

CacheInit ==
    /\ InitProgram
    /\ store.finEpoch = {}
    /\ FnIdle
    /\ ExtIdle

\* what the contract answers for rounds(e) and rounds(e + 1) at the time of a call
StartTimes(e, now) == {0, RoundStart(e), now \div 1000 + 1}
NextTimes(e) == {-1, 0, RoundStart(e), RoundStart(e) + 1, RoundStart(e + 1)}

GetBlockRangeForEpoch(e) ==
    \E startTime \in StartTimes(e, DateNow(nowTick)), next \in NextTimes(e),
       rpcOk \in BOOLEAN, shortS \in {0, 1}, shortE \in {0, 1} :
       LET now == DateNow(nowTick)
           cleaned == cleanExpiredRanges(blockRangeCache, now)
           served == getCachedBlockRange(blockRangeCache, now, e) # NoData
           endTime == IF next > 0 THEN next ELSE now \div 1000
       IN  /\ served => (startTime = RoundStart(e) /\ next = 0 /\ rpcOk)
           /\ (shortS = 1 \/ shortE = 1) => (~served /\ rpcOk /\ startTime > 0 /\ endTime > startTime)
           /\ shortS = 1 => mayFallShort(LocateCall(cleaned, startTime, "gte", 1))
           /\ shortE = 1 => mayFallShort(LocateCall(cleaned, endTime, "lt", 1))
           /\ \E r \in {getBlockRangeForEpoch(blockRangeCache, now, e, startTime, next,
                                               rpcOk, shortS, shortE)} :
                 /\ blockRangeCache' = r.cache
                 /\ blockTimestampCache' = IF served THEN blockTimestampCache
                                           ELSE cleanExpiredCache(blockTimestampCache, now)
                 /\ rangeLast' = [n |-> 1 - rangeLast.n, epoch |-> e,
                                  outcome |-> r.outcome, error |-> r.error, data |-> r.data]
           /\ UNCHANGED << nowTick, tsLookup, progVars, locVars, valVars, mcVars, hvVars, opVars >>

LookupTimestamps ==
    \E blockNumbers \in (SUBSET CacheBlocks) \ {{}} : \E rpcOk \in SUBSET blockNumbers :
    \E r \in {getBlockTimestampsBatch(blockTimestampCache, DateNow(nowTick), blockNumbers, rpcOk)} :
        /\ blockTimestampCache' = r.cache
        /\ tsLookup' = [n |-> 1 - tsLookup.n, blocks |-> blockNumbers,
                        fetched |-> r.fetched, result |-> r.result]
        /\ UNCHANGED << nowTick, blockRangeCache, rangeLast,
                        progVars, locVars, valVars, mcVars, hvVars, opVars >>

CleanExpiredCache ==
    /\ blockTimestampCache' = cleanExpiredCache(blockTimestampCache, DateNow(nowTick))
    /\ blockRangeCache' = cleanExpiredRanges(blockRangeCache, DateNow(nowTick))
    /\ UNCHANGED << nowTick, tsLookup, rangeLast,
                    progVars, locVars, valVars, mcVars, hvVars, opVars >>

CacheTick ==
    /\ nowTick < MaxCacheTicks
    /\ nowTick' = nowTick + 1
    /\ UNCHANGED << blockTimestampCache, tsLookup, blockRangeCache, rangeLast,
                    progVars, locVars, valVars, mcVars, hvVars, opVars >>

CacheNext ==
    \/ LookupTimestamps
    \/ CleanExpiredCache
    \/ CacheTick

CacheSpec == CacheInit /\ [][CacheNext]_vars

\* getBlockRangeForEpoch with the clock
RangeNext ==
    \/ \E e \in RangeEpochs : GetBlockRangeForEpoch(e)
    \/ CacheTick

RangeSpec == CacheInit /\ [][RangeNext]_vars

\* --------------------------------- the harvester's windows and slices alone
\* (EventScraper.fetchEventsInRange and fetchEventsByFilter)
maxBlocksPerBatch == 100000
defaultSliceSize == 20000

\* Number(process.env.SLICE_SIZE) || 20_000: unset or 0 gives the default
sliceSizeOf(env) == IF env = 0 THEN defaultSliceSize ELSE env

\* Math.ceil(blockCount / maxBlocksPerBatch)
totalBatchesOf(blockCount) == (blockCount + maxBlocksPerBatch - 1) \div maxBlocksPerBatch

\* end = Math.min(toBlock, cursor + sliceSize - 1) (faulty variant first: one block more)
sliceEndLong(cursor, toBlock, sliceSize) == Min2(toBlock, cursor + sliceSize)

sliceEnd(cursor, toBlock, sliceSize) == Min2(toBlock, cursor + sliceSize - 1)

\* the while loop of fetchEventsByFilter: the queryFilter calls issued from cursor on;
\* the call number failSlice throws and the catch ends the loop (0: none throws)
RECURSIVE SliceLoop(_, _, _, _, _)
SliceLoop(cursor, toBlock, sliceSize, n, failSlice) ==
    IF cursor <= toBlock
    THEN LET end == sliceEnd(cursor, toBlock, sliceSize)
         IN  IF n = failSlice
             THEN << [from |-> cursor, to |-> end] >>
             ELSE << [from |-> cursor, to |-> end] >>
                  \o SliceLoop(end + 1, toBlock, sliceSize, n + 1, failSlice)
    ELSE << >>

\* the number of queryFilter calls the loop makes when none throws
slicesOf(fromBlock, toBlock, sliceSize) ==
    IF toBlock < fromBlock THEN 0 ELSE (toBlock - fromBlock) \div sliceSize + 1

\* fetchEventsByFilter(eventName, filter, fromBlock, toBlock) of one stream
fetchEventsByFilterQueries(fromBlock, toBlock, env, failSlice) ==
    [from    |-> fromBlock,
     to      |-> toBlock,
     threw   |-> failSlice \in 1..slicesOf(fromBlock, toBlock, sliceSizeOf(env)),
     queries |-> SliceLoop(fromBlock, toBlock, sliceSizeOf(env), 1, failSlice)]

\* fetchEventsInRange(fromBlock, toBlock): the windows in order, each with its queries
fetchEventsInRangeWindows(c) ==
    LET blockCount == c.toBlock - c.fromBlock + 1
        totalBatches == totalBatchesOf(blockCount)
        window(batchIndex) ==
            LET batchStart == c.fromBlock + batchIndex * maxBlocksPerBatch
                batchEnd == Min2(c.toBlock, batchStart + maxBlocksPerBatch - 1)
            IN  fetchEventsByFilterQueries(batchStart, batchEnd, c.SLICE_SIZE,
                    IF batchIndex + 1 = c.failWindow THEN c.failSlice ELSE 0)
    IN  IF totalBatches > 1
        THEN [i \in 1..totalBatches |-> window(i - 1)]
        ELSE << fetchEventsByFilterQueries(c.fromBlock, c.toBlock, c.SLICE_SIZE,
                    IF c.failWindow = 1 THEN c.failSlice ELSE 0) >>

SliceSizes == {0, 7000, 33333, maxBlocksPerBatch, maxBlocksPerBatch + 30000}

HarvestCases ==
    { [fromBlock |-> f, toBlock |-> f + k * maxBlocksPerBatch + d - 1, SLICE_SIZE |-> env,
       failWindow |-> fw, failSlice |-> IF fw = 0 THEN 0 ELSE fs] :
        f \in {1, ChainLatest}, k \in 0..(MaxWindows - 1),
        d \in {1, defaultSliceSize, defaultSliceSize + 1, maxBlocksPerBatch},
        env \in SliceSizes, fw \in 0..MaxWindows, fs \in 1..2 }

HvInit ==
    /\ InitProgram
    /\ store.finEpoch = {}
    /\ FnIdle
    /\ CacheIdle
    /\ OpIdle
    /\ hvCase \in HarvestCases
    /\ hvResult = NotHarvested

Harvest ==
    /\ ~hvResult.done
    /\ hvResult' = [done |-> TRUE, windows |-> fetchEventsInRangeWindows(hvCase)]
    /\ UNCHANGED << hvCase, progVars, locVars, valVars, mcVars, cacheVars, opVars >>

HvNext == Harvest

HvSpec == HvInit /\ [][HvNext]_vars

\* ------------------------- the typed operations of the transaction handle
\* (TransactionManager.createTransactionClient inside executeTransaction)
OpKinds == {"insert", "batchInsert", "emptyBatchInsert", "delete", "update", "select"}

\* table names a caller may pass: two of the allow-list, and three outside it
TableNames == {"round", "finEpoch", "users", "hisbet", ""}

\* the row a caller writes: its key column
RowFor(tableName, e) == [epoch |-> e]

\* the statement the typed operation op builds for a table
TypedOp(op, tableName, e) ==
    CASE op = "insert"           -> TrxInsert(RowFor(tableName, e), tableName)
      [] op = "batchInsert"      -> TrxBatchInsert(<< RowFor(tableName, e) >>, tableName)
      [] op = "emptyBatchInsert" -> TrxBatchInsert(<< >>, tableName)
      [] op = "delete"           -> TrxDelete(tableName, e)
      [] op = "update"           -> TrxUpdate(tableName, e)
      [] op = "select"           -> TrxSelect(tableName, 0)

OpInit ==
    /\ InitProgram
    /\ FnIdle
    /\ CacheIdle
    /\ HvIdle
    /\ OpIdle

\* executeTransaction(async trx => { [await trx.select('round');] await trx.<op>(...) }):
\* the typed operation is statement number `at' of the callback
TypedOperation(op, tableName, e, at) ==
    /\ opLast = NoOperation
    /\ checkedOut < MaxCheckedOut
    /\ \E qs \in {(IF at = 2 THEN << TrxSelect("round", 0) >> ELSE << >>)
                  \o << TypedOp(op, tableName, e) >>} :
       \E net \in NetCases(Len(qs)) :
       \E tx \in {executeTransaction(store, qs, net, checkedOut)} :
          /\ checkedOut' = checkedOut + tx.leaked
          /\ store' = tx.store
          /\ opLast' = [seq |-> 1 - opLast.seq, op |-> op, tableName |-> tableName, at |-> at,
                        qs |-> qs, net |-> net, ok |-> tx.ok, step |-> tx.step,
                        leaked |-> tx.leaked, before |-> store]
    /\ UNCHANGED << lock, invVars, consecutiveFailures, failureWindowAge, phase, exitCode,
                    txVars, brkVars, schedVars, locVars, valVars, mcVars, cacheVars, hvVars >>

OpNext ==
    \/ \E op \in OpKinds, tableName \in TableNames, e \in Epochs, at \in 1..2 :
          TypedOperation(op, tableName, e, at)
    \/ PoolReconnect

OpSpec == OpInit /\ [][OpNext]_vars

TypeOK ==
    /\ store.finEpoch \subseteq Epochs
    /\ \A e \in Epochs : lock[e] \in 0..LockTtlTicks
    /\ \A p \in Inv : pc[p] \in {"idle", "acquire", "process", "finally", "shutdown", "exited"}

\* ----------------------------------------------------------------- claims
\* C1: lock mutual exclusion.  While one invocation has observed
\* acquire(e) = true, has not released the lock itself and has not outlived
\* the TTL, no other invocation's acquire(e) returns true: no two invocations
\* hold a live acquisition of the same epoch.
C1_LockMutualExclusion ==
    \A e \in Epochs : \A p, q \in Inv :
        (p # q /\ acquired[p] /\ epoch[p] = e /\ ttlLeft[p] > 0)
            => ~(acquired[q] /\ epoch[q] = e /\ ttlLeft[q] > 0)

\* C2: an invocation that ends in SKIP (completion row found, or acquire
\* returned false) leaves the lock key unchanged when it ends.
C2_SkipLeavesLockKey ==
    [][\A p \in Inv :
          (pc[p] = "finally" /\ outcome[p] \in {"skipDone", "skipLock"} /\ pc'[p] = "idle")
              => lock' = lock]_vars

C6_ReleaseOnEveryExit ==
    [][\A p \in Inv : (pc[p] = "shutdown" /\ pc'[p] = "exited") => ~acquired[p]]_vars

\* C7: fail closed.  No invocation is inside handleEpochProcessing (LOCATE,
\* HARVEST, VALIDATE, COMMIT) unless its own SET NX was answered OK, whatever
\* the lock service does.
C7_FailClosed ==
    \A p \in Inv : pc[p] = "process" => acquired[p]

\* the lock service failed an invocation's acquire and the invocation ended
\* without processing
C7_Witness ==
    \E p \in Inv :
        pc[p] \in {"finally", "shutdown"} /\ outcome[p] = "abortLock" /\ ~acquired[p]

\* C8: no permanent lock.  Every key is set with an expiry: at every moment
\* the key of an epoch is absent or will be absent later, released or
\* expired, so that a later acquire can succeed; no epoch stays locked for
\* ever.
C8_NoPermanentLock ==
    \A e \in Epochs : []<>(lock[e] = 0)

\* the holder disappeared without releasing and the key has expired
C8_Witness ==
    \E p \in Inv : pc[p] = "exited" /\ acquired[p] /\ lock[epoch[p]] = 0

\* C9: pipeline progress.  An invocation that acquired the lock of an
\* uncompleted epoch, met no RPC, store or lock error and no failed log
\* query, and whose block range holds a StartRound and well-formed stakes
\* that pass every validation check, leaves a finEpoch row of the epoch.
C9_PipelineProgress ==
    \A p \in Inv :
        ( /\ pc[p] \in {"finally", "shutdown"}
          /\ acquired[p]
          /\ outcome[p] \in {"ok", "abortValidate"}
          /\ ~queryFailed[p]
          /\ validateEpochData(AllEventsOf(epoch[p])).isValid )
            => epoch[p] \in store.finEpoch

\* C10: every invocation that aborts after starting to process an epoch
\* leaves an errEpoch row of the epoch with its error text, and leaves the
\* completion status unchanged.
C10_AbortLeavesErrorRow ==
    [][\A p \in Inv :
          (pc[p] = "process" /\ pc'[p] \in {"finally", "shutdown"} /\ outcome'[p] \in ProcessingAborts)
              => /\ store'.errEpoch[epoch[p]] = lastError'[p]
                 /\ store'.finEpoch = store.finEpoch]_vars

\* C10 amended: the abort upserts the errEpoch row of the epoch with its
\* error text when the error-log write reaches the store, and changes no
\* table when that write fails; the completion status is unchanged either
\* way.
C10_AbortLogsWhenWriteSucceeds ==
    [][\A p \in Inv :
          (pc[p] = "process" /\ pc'[p] \in {"finally", "shutdown"} /\ outcome'[p] \in ProcessingAborts)
              => IF logged'[p]
                 THEN store' = [store EXCEPT !.errEpoch[epoch[p]] = lastError'[p]]
                 ELSE store' = store]_vars

\* an abort replaced the error text an earlier failure had left for the epoch
C10_Witness ==
    \E p, q \in Inv :
        /\ p # q /\ epoch[p] = epoch[q]
        /\ pc[p] = "finally" /\ outcome[p] \in ProcessingAborts /\ logged[p]
        /\ pc[q] = "finally" /\ logged[q] /\ lastError[q] # lastError[p]
        /\ store.errEpoch[epoch[p]] = lastError[p]

\* C11: when the caller-supplied function throws at a statement of the
\* commit sequence, the executor rolls back and rethrows: no table holds a
\* write of the transaction afterwards (the realBet rows are still there, no
\* round, hisBet, claim, multiClaim or finEpoch row was added), and the
\* errEpoch row written afterwards on another connection is in the store.
C11_RollbackOnThrow ==
    [][(txLast'.seq # txLast.seq /\ txLast'.step > 0)
          => /\ ~txLast'.ok
             /\ store' = IF txLast'.logged
                         THEN [store EXCEPT !.errEpoch[txLast'.epoch] = txLast'.error]
                         ELSE store]_vars

\* the function threw after an insert had gone through; the row is gone, the
\* realBet row is still there and the error row is in the store
C11_Witness ==
    /\ ~txLast.ok /\ txLast.step >= 2 /\ txLast.logged
    /\ txLast.epoch \in store.realBet
    /\ txLast.epoch \notin store.finEpoch
    /\ \A i \in 1..Len(store.round) : store.round[i].epoch # txLast.epoch
    /\ store.errEpoch[txLast.epoch] = txLast.error

\* C12: the number of connections checked out of the pool is the same after
\* every executeTransaction call as before it, whether the call committed,
\* the callback threw, or COMMIT or ROLLBACK itself failed.
C12_ConnectionReturned ==
    [][txLast'.seq # txLast.seq => checkedOut' = checkedOut]_vars

\* C13: circuit-breaker.  Starting from a zero failure counter and with no
\* shutdown in progress, the third failure with no successful processing
\* since the first, falling within the failure window the first one opened,
\* shuts the process down with exit code 1; the first and the second do not.
C13_TripsOnThirdFailure ==
    [][(failureLog'.seq # failureLog.seq /\ failureLog'.outcome = "abort" /\ phase = "up")
          => IF failureLog.n = 2 /\ failureLog.a2 <= WindowTicks
             THEN phase' = "closing" /\ exitCode' = 1
             ELSE failureLog.n < 2 => phase' = "up"]_vars

\* C14: sliding window.  Whenever the three most recent failures, with no
\* success and no reset of the counter between them, lie within one span of
\* failureWindowDuration, the third of them trips the circuit-breaker, however
\* old the failures before them are.
C14_SlidingWindow ==
    [][(/\ failureLog'.seq # failureLog.seq /\ failureLog'.outcome = "abort" /\ phase = "up"
        /\ failureLog.m >= 2 /\ failureLog.a2 # -1 /\ failureLog.a2 <= WindowTicks)
          => phase' = "closing" /\ exitCode' = 1]_vars

\* C15: the failure counter is reset to zero only by an invocation that
\* processed and committed its epoch; an invocation that skips at the
\* completion check or at the lock leaves the counter and the start of the
\* failure window unchanged.
C15_OnlySuccessResets ==
    [][\A p \in Inv :
          (pc[p] \in {"idle", "acquire", "process"} /\ pc'[p] = "finally")
             => /\ outcome'[p] \in {"skipDone", "skipLock"}
                   => /\ consecutiveFailures' = consecutiveFailures
                      /\ failureWindowAge' = failureWindowAge
                /\ (consecutiveFailures > 0 /\ consecutiveFailures' = 0)
                   => outcome'[p] = "ok"]_vars

\* C16: when the lock service is unreachable, acquire returns false and the
\* invocation takes the SKIP path of a held lock: every lock step that does
\* not obtain the lock ends as a skip, writes nothing and is not counted as a
\* failure.
C16_UnreachableLockSkips ==
    [][\A p \in Inv :
          (pc[p] = "acquire" /\ pc'[p] \in {"finally", "shutdown"})
             => /\ outcome'[p] = "skipLock"
                /\ consecutiveFailures' = consecutiveFailures
                /\ store' = store]_vars

\* C17: an invocation one of whose log queries failed during the harvest
\* ends in failure: the errEpoch row of the epoch is written, the lock
\* release is issued next and the failure is counted; it never commits the
\* epoch.
C17_FailedQueryFailsInvocation ==
    [][\A p \in Inv :
          (pc[p] = "process" /\ pc'[p] \in {"finally", "shutdown"} /\ queryFailed'[p])
             => /\ outcome'[p] \in ProcessingAborts
                /\ store'.errEpoch[epoch[p]] = lastError'[p]
                /\ pc'[p] = "finally"
                /\ consecutiveFailures' >= 1
                /\ store'.finEpoch = store.finEpoch]_vars

C19_TipTargetsFollowChain ==
    [][(tipLog'.ran /\ tipLog'.seq # tipLog.seq /\ chainEpoch >= 5)
          => tipLog'.targets = << chainEpoch - 2, chainEpoch - 3, chainEpoch - 4 >>]_vars

\* C20: an epoch whose attempt failed or was skipped at the lock, and that
\* is still not completed, is handed to the pipeline again by a later sweeper
\* cycle of the same uptime: the sweeper never passes over an uncompleted
\* epoch because processedEpochs holds it.
C20_SetNeverPreventsRetry ==
    [][(/\ cycle.pc = "loop" /\ cycle'.pc = "loop"
        /\ cycle'.targetEpoch < cycle.targetEpoch
        /\ sweepLog'.invocations = sweepLog.invocations)
          => checkFinEpoch(store, cycle.targetEpoch)]_vars

\* C21: after the shutdown has stopped the scheduler, neither driver starts
\* a pipeline invocation: every invocation starts while the process is up.
C21_NoStartAfterStop ==
    [][\A p \in Inv :
          (pc[p] = "idle" /\ pc'[p] \in {"acquire", "finally", "shutdown"})
             => phase = "up"]_vars

\* C22: on graceful shutdown an invocation in flight finishes and releases
\* its lock before the connections are closed: when gracefulShutdown closes
\* the connections no invocation holds an acquisition it has not released.
C22_ReleaseBeforeClose ==
    [][(phase = "up" /\ phase' = "closing" /\ exitCode' = 0)
          => \A p \in Inv : ~acquired[p]]_vars

\* C23: the locator returns, in mode gte, the first block whose time is at
\* or after the target and, in mode lt, the last block whose time is before
\* it, whatever the seed and the distance of the target from it.
C23_LocatorCorrect ==
    locBlock >= 0 =>
        IF locCase.mode = "gte"
        THEN /\ TimestampOf(locCase, locBlock) >= locCase.targetTime
             /\ (locBlock = 0 \/ TimestampOf(locCase, locBlock - 1) < locCase.targetTime)
        ELSE /\ TimestampOf(locCase, locBlock) < locCase.targetTime
             /\ (locBlock = locCase.latest
                   \/ TimestampOf(locCase, locBlock + 1) >= locCase.targetTime)

\* the sum of the amounts of the Bet records of one direction
SideTotal(hisBetData, direction) ==
    SumAmounts([i \in 1..Len(hisBetData) |->
                  [amount |-> IF hisBetData[i].betDirection = direction
                              THEN hisBetData[i].betAmount ELSE 0]])

BetTotal(hisBetData) ==
    SumAmounts([i \in 1..Len(hisBetData) |-> [amount |-> hisBetData[i].betAmount]])

Distance(a, b) == IF a >= b THEN a - b ELSE b - a

\* validation went past the integrity check of the events
Reached == valResult.done /\ Len(validateEventsIntegrity(valCase)) = 0

NoStake == Len(valCase.betBullEvents) = 0 /\ Len(valCase.betBearEvents) = 0

\* C24: a harvest without stake event fails validation: the invocation
\* aborts, the errEpoch row of the epoch is written and no round, hisBet or
\* finEpoch row is created.
C24_NoStakeAborts ==
    (valResult.done /\ NoStake)
        => /\ ~valResult.vr.isValid
           /\ valResult.error = ValidationFailed
           /\ store.errEpoch[TargetEpoch] = ValidationFailed
           /\ store.round = ValStore.round
           /\ store.hisBet = ValStore.hisBet
           /\ store.finEpoch = ValStore.finEpoch

\* C24 amended: as C24, with the errEpoch row written when the error-log
\* write reaches the store and no table changed when it does not.
C24_NoStakeAbortsLoggedWhenReached ==
    (valResult.done /\ NoStake)
        => /\ ~valResult.vr.isValid
           /\ valResult.error = ValidationFailed
           /\ store = IF valResult.logged
                      THEN [ValStore EXCEPT !.errEpoch[TargetEpoch] = ValidationFailed]
                      ELSE ValStore

\* a harvest with the round's StartRound event and no stake was rejected and
\* its error row written
C24_Witness ==
    /\ valResult.done /\ NoStake
    /\ Len(valCase.startRoundEvents) > 0
    /\ valResult.vr.errors = << "no bet events", "no bets" >>
    /\ store.errEpoch[TargetEpoch] = ValidationFailed

\* C25: outcome law.  In every successful validation a Bet record's result
\* is WIN iff its direction is the result of the Round record.
C25_OutcomeLaw ==
    (valResult.done /\ valResult.vr.isValid)
        => \A i \in 1..Len(valResult.vr.hisBetData) :
              (valResult.vr.hisBetData[i].result = "WIN")
                 <=> (valResult.vr.hisBetData[i].betDirection = valResult.vr.roundData.result)

\* a successful validation of a round that closed lower, with a winning and
\* a losing Bet record
C25_Witness ==
    /\ valResult.done /\ valResult.vr.isValid
    /\ valResult.vr.roundData.result = "DOWN"
    /\ \E i, j \in 1..Len(valResult.vr.hisBetData) :
          /\ valResult.vr.hisBetData[i].result = "WIN"
          /\ valResult.vr.hisBetData[j].result = "LOSS"

\* C26: side law.  In every successful validation the amounts of the UP Bet
\* records add up to the Round record's upAmount and those of the DOWN Bet
\* records to its downAmount, to four decimals.
C26_SideLaw ==
    (valResult.done /\ valResult.vr.isValid)
        => /\ Round4(SideTotal(valResult.vr.hisBetData, "UP"))
                 = Round4(valResult.vr.roundData.upAmount)
           /\ Round4(SideTotal(valResult.vr.hisBetData, "DOWN"))
                 = Round4(valResult.vr.roundData.downAmount)

ExpectedClaims ==
    LET wf == SelectSeq(valCase.claimEvents,
                        LAMBDA c : c.sender # "" /\ c.epoch # 0 /\ c.amount > 0)
    IN  [i \in 1..Len(wf) |->
            [epoch |-> TargetEpoch, walletAddress |-> toLowerCase(wf[i].sender),
             betEpoch |-> wf[i].epoch, claimAmount |-> wf[i].amount]]

\* C28: in every successful validation there is exactly one Claim record for
\* every claim event of the harvest, with epoch the target epoch, betEpoch the
\* event's epoch, the lowercased wallet and the event's amount.
C28_ClaimRecords ==
    (valResult.done /\ valResult.vr.isValid)
        => valResult.vr.claimData = ExpectedClaims

\* C30: a missing lock or close price does not fail validation: a warning is
\* recorded in the result, the Round record's result is UP and no error is
\* added to those of the other checks.
C30_MissingPriceWarns ==
    (Reached /\ (Len(valCase.lockRoundEvents) = 0 \/ Len(valCase.endRoundEvents) = 0))
        => /\ Len(valResult.vr.warnings) > 0
           /\ valResult.vr.roundData.result = "UP"
           /\ valResult.vr.errors
                 = validateEpochData([valCase EXCEPT
                      !.lockRoundEvents = << Ev("LockRound", TargetEpoch, 8, "", 0, 500) >>,
                      !.endRoundEvents = << Ev("EndRound", TargetEpoch, 9, "", 0, 510) >>]).errors

\* the Claim records of a wallet, their number and the sum of their amounts
ClaimsOfWallet(w) == SelectSeq(mcCase, LAMBDA c : c.walletAddress = w)

ClaimSumOfWallet(w) ==
    SumAmounts([i \in 1..Len(ClaimsOfWallet(w)) |-> [amount |-> ClaimsOfWallet(w)[i].claimAmount]])

\* C29: MultiClaim derivation.  For every wallet a row is returned iff the
\* wallet's Claim records number at least 5 or their amounts add up to at
\* least 1; there is at most one row per wallet and it holds the epoch, that
\* number and that sum.
C29_MultiClaimDerivation ==
    mcResult.done =>
        \A w \in {"0xa", "0xb"} :
            LET rows == SelectSeq(mcResult.rows, LAMBDA r : r.walletAddress = w)
            IN  /\ Len(rows) <= 1
                /\ (Len(rows) = 1) <=>
                      (Len(ClaimsOfWallet(w)) >= 5 \/ ClaimSumOfWallet(w) >= BNB)
                /\ Len(rows) = 1 =>
                      /\ rows[1].epoch = TargetEpoch
                      /\ rows[1].claimCount = Len(ClaimsOfWallet(w))
                      /\ rows[1].totalAmount = ClaimSumOfWallet(w)

\* C31: a harvest without claim event is rejected by validation: the
\* processing is aborted with the validation error before any write.
C31_NoClaimRejected ==
    (valResult.done /\ Len(valCase.claimEvents) = 0)
        => /\ ~valResult.vr.isValid
           /\ valResult.error = ValidationFailed

\* C32: the final boundary correction of the locator walks at most step
\* single-block steps, leftwards in mode gte and rightwards in mode lt.
C32_SweepBounded ==
    locBlock >= 0 =>
        IF locCase.mode = "gte"
        THEN BeforeSweep(locCase) - step <= locBlock /\ locBlock <= BeforeSweep(locCase)
        ELSE BeforeSweep(locCase) <= locBlock /\ locBlock <= BeforeSweep(locCase) + step

\* a walk to the left that the bound ended: it stopped at a multiple of the
\* stride although the block before is not earlier than the target
C32_Witness ==
    /\ locBlock > 0 /\ locCase.mode = "gte"
    /\ locBlock < BeforeSweep(locCase)
    /\ locBlock % step = 0
    /\ TimestampOf(locCase, locBlock - 1) >= locCase.targetTime

\* an entry is within the expiry when less than 60 minutes passed since it was cached
isFreshByCachedAt(now, cached) == now - cached.cachedAt < timestampCacheExpiry

\* C33: a timestamp cached by the batched lookup is served from the cache, with the
\* same value and without another getBlock call, while the entry is younger than
\* the 60 minute expiry; after the expiry the block is fetched again.
C33_TimestampCached ==
    [][ tsLookup'.n # tsLookup.n =>
          \A b \in tsLookup'.blocks :
             has(blockTimestampCache, b) =>
                IF isFreshByCachedAt(DateNow(nowTick), blockTimestampCache[b])
                THEN /\ b \notin tsLookup'.fetched
                     /\ tsLookup'.result[b] = blockTimestampCache[b].timestamp
                ELSE b \in tsLookup'.fetched ]_vars

\* ranges that follow one another without gap or overlap and fill [from, to]
Partitions(ranges, from, to) ==
    /\ Len(ranges) >= 1
    /\ ranges[1].from = from
    /\ ranges[Len(ranges)].to = to
    /\ \A i \in 1..Len(ranges) : ranges[i].from <= ranges[i].to
    /\ \A i \in 1..(Len(ranges) - 1) : ranges[i + 1].from = ranges[i].to + 1

\* the same up to the last range, which may stop short of to
PrefixOf(ranges, from, to) ==
    /\ Len(ranges) >= 1
    /\ ranges[1].from = from
    /\ ranges[Len(ranges)].to <= to
    /\ \A i \in 1..Len(ranges) : ranges[i].from <= ranges[i].to
    /\ \A i \in 1..(Len(ranges) - 1) : ranges[i + 1].from = ranges[i].to + 1

\* C34: for a range with from <= to the windows hold at most 100,000 blocks each
\* and partition [from, to]; in every window the log queries of a stream hold at
\* most the slice size each and partition the window, so every block is queried
\* exactly once, and the loop ends (a query that throws ends it early, after a
\* gapless run of queries from the window's start).
C34_WindowsAndSlicesPartition ==
    hvResult.done =>
        /\ Partitions(hvResult.windows, hvCase.fromBlock, hvCase.toBlock)
        /\ \A w \in 1..Len(hvResult.windows) :
             LET win == hvResult.windows[w]
             IN  /\ win.to - win.from + 1 <= maxBlocksPerBatch
                 /\ \A q \in 1..Len(win.queries) :
                      win.queries[q].to - win.queries[q].from + 1 <= sliceSizeOf(hvCase.SLICE_SIZE)
                 /\ IF win.threw
                    THEN PrefixOf(win.queries, win.from, win.to)
                    ELSE Partitions(win.queries, win.from, win.to)

\* a range of three windows whose last window is cut into several slices, none failing
C34_Witness ==
    /\ hvResult.done
    /\ Len(hvResult.windows) = 3
    /\ Len(hvResult.windows[3].queries) >= 2
    /\ \A w \in 1..3 : ~hvResult.windows[w].threw
    /\ hvResult.windows[3].queries[2].from = hvResult.windows[3].queries[1].to + 1

\* C35: every Bet record of a successful validation for the target epoch, and
\* every hisBet row then committed, carries the target epoch, and stakes of
\* neighbouring epochs add nothing to the Round record's totals.
C35_OnlyTargetEpochBets ==
    (valResult.done /\ valResult.vr.isValid) =>
        /\ \A i \in 1..Len(valResult.vr.hisBetData) :
              valResult.vr.hisBetData[i].epoch = TargetEpoch
        /\ valResult.error = None =>
              \A i \in 1..Len(store.hisBet) : store.hisBet[i].epoch = TargetEpoch
        /\ valResult.vr.roundData.totalAmount
              = SumAmounts(SelectSeq(valCase.betBullEvents \o valCase.betBearEvents,
                                     LAMBDA b : b.epoch = TargetEpoch))

\* the transaction reached the callback: a connection was handed out and BEGIN served
CallbackRan == opLast.net.connect /\ opLast.net.begin /\ opLast.leaked + opLast.step > 0

\* C36: a typed operation (insert, batch insert of a non-empty list, delete,
\* update, select) given a table name outside the allow-list builds and sends no
\* statement; inside executeTransaction the call then throws, the transaction is
\* rolled back (the connection released once ROLLBACK is served) and the tables
\* are as before.
C36_TableNameChecked ==
    (opLast.op \notin {"none", "emptyBatchInsert"} /\ opLast.tableName \notin allowedTables)
        => /\ opLast.qs[opLast.at].kind = "throw"
           /\ ~opLast.ok
           /\ store = opLast.before
           /\ (opLast.net.connect /\ opLast.net.begin /\ opLast.net.lostAt = 0)
                 => /\ opLast.step = opLast.at
                    /\ opLast.net.rollback => opLast.leaked = 0

\* an update of table "users" issued after a select that was served, and rolled back
C36_Witness ==
    /\ opLast.op = "update" /\ opLast.tableName = "users" /\ opLast.at = 2
    /\ opLast.step = 2 /\ ~opLast.ok /\ opLast.leaked = 0
    /\ opLast.net.rollback /\ opLast.net.lostAt = 0

\* C37: for an epoch that has a finEpoch row no step writes its errEpoch row and
\* no step counts a failure of an invocation working on it.
C37_NoErrorForCompletedEpoch ==
    [][\A e \in Epochs :
          e \in store.finEpoch =>
             /\ store'.errEpoch[e] = store.errEpoch[e]
             /\ \A p \in Inv :
                   (pc[p] \in {"idle", "acquire", "process"} /\ pc'[p] \in {"finally", "shutdown"}
                    /\ epoch'[p] = e)
                      => lastError'[p] = None]_vars

\* a range as the callers need it: its blocks and its times in order
WellFormed(data) == data.from <= data.to /\ data.startTime < data.endTime

\* C38: every range getBlockRangeForEpoch returns, and every range held in the
\* block-range cache, has from <= to and startTime < endTime; a call that throws
\* stores no entry for its epoch.
C38_RangesWellFormed ==
    /\ [](/\ \A e \in RangeEpochs :
               hasRange(blockRangeCache, e) => WellFormed(blockRangeCache[e].data)
          /\ rangeLast.outcome \in {"cached", "located"} => WellFormed(rangeLast.data))
    /\ [][(rangeLast'.n # rangeLast.n /\ rangeLast'.outcome = "throw")
             => \A e \in RangeEpochs :
                   blockRangeCache'[e] \in {blockRangeCache[e], NoRangeEntry}]_vars

\* a range was located and cached, and a later call for a second epoch threw on
\* its located blocks while the first entry stayed
C38_Witness ==
    /\ rangeLast.outcome = "throw" /\ rangeLast.error = "block range invalid"
    /\ \E e \in RangeEpochs : hasRange(blockRangeCache, e) /\ e # rangeLast.epoch

\* C39: in every state of the failure accounting the counter of consecutive
\* failures is zero exactly when the start of the failure window is unset.
C39_CounterZeroIffWindowUnset ==
    consecutiveFailures = 0 <=> failureWindowAge = -1

\* failures were counted in an open window, and a skip at the completion check
\* then cleared the counter and the window
C39_Witness ==
    /\ failureLog.outcome = "skipDone" /\ failureLog.n >= 2
    /\ consecutiveFailures = 0 /\ failureWindowAge = -1

====
